---- MODULE Spec2Model ----
(***************************************************************************)
(* Tile cache, spatial index and viewport arithmetic of rust_figma_renderer *)
(* (tiles.rs, spatial.rs, api.rs, nodes.rs).                                *)
(*                                                                          *)
(* World coordinates (f64 in the source) are integers here: every value the *)
(* model uses is an integer of small magnitude, on which the f64 operations *)
(* of the source (+, *, / by a power of two, floor, ceil, comparisons) are  *)
(* exact.  A viewport scale is a number of thousandths (ScaleDen).          *)
(***************************************************************************)
EXTENDS Integers, Sequences, FiniteSets, TLC

VARIABLES
    nodes,             \* FigFile.nodes: id -> FigmaNode (immutable after load)
    spatial_index,     \* FigmaDocument.spatial_index: None or Some(SpatialIndex)
    tiles,             \* TileGrid.tiles: TileCoord -> Tile
    max_cached_tiles,  \* TileGrid.max_cached_tiles
    access_counter,    \* TileGrid.access_counter
    op,                \* the last operation called, with its arguments
    ret,               \* what the last operation returned
    log,               \* coords looked up on the grid since it was new or cleared
    spatial_index_lock,  \* the RwLock around FigmaDocument.spatial_index
    tile_grid_lock,      \* the RwLock around FigmaDocument.tile_grid
    threads,             \* the host threads inside a call: position and locals
    decoder              \* a KiwiDecoder being read from: data, pos, field_defs

vars == <<nodes, spatial_index, tiles, max_cached_tiles, access_counter, op, ret, log,
          spatial_index_lock, tile_grid_lock, threads, decoder>>

----------------------------------------------------------------------------
(* Bounds of the model *)

\* lookups a TileGrid performs in one behaviour of SpecLRU
MaxAccessLRU == 5
\* largest capacity handed to with_capacity in SpecLRU
MaxCapLRU == 4
\* lookups the document's grid performs in one behaviour of Spec
MaxAccess == 3
\* largest capacity of the document's grid in Spec
MaxCap == 2
\* calls the host threads make in one behaviour of SpecConc
MaxCallsConc == 3
\* calls the host threads make in one behaviour of FairSpecConc
MaxCallsFair == 2
\* frames that fit on the stack of the host thread in SpecWalk
MaxStack == 6

----------------------------------------------------------------------------
(* Arithmetic *)

TILE_SIZE == 1024

\* denominator of a viewport scale: scale s stands for s / ScaleDen
ScaleDen == 1000

RECURSIVE Pow2(_)
Pow2(n) == IF n <= 0 THEN 1 ELSE 2 * Pow2(n - 1)

\* (a / b).floor() and (a / b).ceil() for b > 0
Floor(a, b) == a \div b
Ceil(a, b) == -((-a) \div b)

Min2(a, b) == IF a <= b THEN a ELSE b
Max2(a, b) == IF a >= b THEN a ELSE b

SeqToSet(s) == {s[i] : i \in 1..Len(s)}

----------------------------------------------------------------------------
(* TileCoord and Viewport (tiles.rs) *)

TileCoord(x, y, zoom_level) == [x |-> x, y |-> y, zoom_level |-> zoom_level]

\* TileCoord::bounds
TileBounds(coord) ==
    LET tile_size == TILE_SIZE * Pow2(coord.zoom_level)
    IN  [x |-> coord.x * tile_size, y |-> coord.y * tile_size,
         width |-> tile_size, height |-> tile_size]

Viewport(x, y, width, height, scale) ==
    [x |-> x, y |-> y, width |-> width, height |-> height, scale |-> scale]

\* mutant of zoom_to_lod: strict comparisons
zoom_to_lod_strict(scale) ==
    IF 2 * scale > ScaleDen THEN 0
    ELSE IF 4 * scale > ScaleDen THEN 1
    ELSE IF 8 * scale > ScaleDen THEN 2
    ELSE 3

\* TileGrid::zoom_to_lod: scale >= 0.5, >= 0.25, >= 0.125
zoom_to_lod(scale) ==
    IF 2 * scale >= ScaleDen THEN 0
    ELSE IF 4 * scale >= ScaleDen THEN 1
    ELSE IF 8 * scale >= ScaleDen THEN 2
    ELSE 3

\* The tile range of get_visible_tiles and the length of its two loops
VisRange(viewport) ==
    LET zoom_level == zoom_to_lod(viewport.scale)
        tile_size == TILE_SIZE * Pow2(zoom_level)
    IN  [zoom_level |-> zoom_level,
         min_tx |-> Floor(viewport.x, tile_size),
         min_ty |-> Floor(viewport.y, tile_size),
         max_tx |-> Ceil(viewport.x + viewport.width, tile_size),
         max_ty |-> Ceil(viewport.y + viewport.height, tile_size)]

\* Vec::with_capacity(((max_tx - min_tx + 1) * (max_ty - min_ty + 1)) as usize)
\* panics with "capacity overflow" when the i32 product is negative
VisCapacityPanics(viewport) ==
    LET r == VisRange(viewport)
    IN  (r.max_tx - r.min_tx + 1) * (r.max_ty - r.min_ty + 1) < 0

\* mutant of get_visible_tiles: the last column and the last row are left out
get_visible_tiles_exclusive(viewport) ==
    LET r == VisRange(viewport)
        nx == Max2(0, r.max_tx - r.min_tx)
        ny == Max2(0, r.max_ty - r.min_ty)
    IN  [i \in 1..(nx * ny) |->
            TileCoord(r.min_tx + ((i - 1) \div ny), r.min_ty + ((i - 1) % ny),
                      r.zoom_level)]

\* TileGrid::get_visible_tiles, when it returns: for tx in min_tx..=max_tx,
\* for ty in min_ty..=max_ty, push (tx, ty, zoom_level)
get_visible_tiles(viewport) ==
    LET r == VisRange(viewport)
        nx == Max2(0, r.max_tx - r.min_tx + 1)
        ny == Max2(0, r.max_ty - r.min_ty + 1)
    IN  [i \in 1..(nx * ny) |->
            TileCoord(r.min_tx + ((i - 1) \div ny), r.min_ty + ((i - 1) % ny),
                      r.zoom_level)]

----------------------------------------------------------------------------
(* FigmaNode (nodes.rs) *)

FigmaNode(id, node_type, visible, x, y, width, height, children) ==
    [id |-> id, node_type |-> node_type, visible |-> visible, x |-> x, y |-> y,
     width |-> width, height |-> height, children |-> children]

\* A document with no nodes
EmptyDoc == [id \in {} |-> FigmaNode(id, "CANVAS", TRUE, 0, 0, 0, 0, <<>>)]

\* A page "r" with a frame "f" that straddles the tiles (0,0,0) and (1,0,0),
\* a rectangle "a" inside it, a hidden ellipse "e" that starts on a tile edge,
\* a thin rectangle "t", a text "z" of width 0 and a child id that resolves
\* to no node
SampleDoc ==
    [id \in {"r", "f", "a", "e", "t", "z"} |->
        CASE id = "r" -> FigmaNode(id, "CANVAS", TRUE, 0, 0, 0, 0,
                                   <<"f", "e", "t", "z", "ghost">>)
          [] id = "f" -> FigmaNode(id, "FRAME", TRUE, 1000, 0, 100, 100, <<"a">>)
          [] id = "a" -> FigmaNode(id, "RECTANGLE", TRUE, 50, 50, 20, 20, <<>>)
          [] id = "e" -> FigmaNode(id, "ELLIPSE", FALSE, 2048, 0, 10, 10, <<>>)
          [] id = "t" -> FigmaNode(id, "RECTANGLE", TRUE, 10, 10, 1, 3, <<>>)
          [] id = "z" -> FigmaNode(id, "TEXT", TRUE, 5, 5, 0, 5, <<>>)]

\* A page "r" that lists the frame "p" twice, frames "p" and "q" that share
\* the child "s", a rectangle "n" of negative width, and a rectangle "u" that
\* no node lists as a child
OddDoc ==
    [id \in {"r", "p", "q", "s", "n", "u"} |->
        CASE id = "r" -> FigmaNode(id, "CANVAS", TRUE, 0, 0, 0, 0, <<"p", "q", "n", "p">>)
          [] id = "p" -> FigmaNode(id, "FRAME", TRUE, 10, 10, 30, 30, <<"s">>)
          [] id = "q" -> FigmaNode(id, "FRAME", TRUE, 100, 0, 50, 50, <<"s">>)
          [] id = "s" -> FigmaNode(id, "RECTANGLE", TRUE, 5, 5, 10, 10, <<>>)
          [] id = "n" -> FigmaNode(id, "RECTANGLE", TRUE, 0, 0, -5, 10, <<>>)
          [] id = "u" -> FigmaNode(id, "RECTANGLE", TRUE, 0, 0, 8, 8, <<>>)]

Docs == {EmptyDoc, SampleDoc}

\* A page "r" of rectangles named after their width and height, which lie
\* around the thresholds 1, 2, 4 and 8 of the LODs, a hidden ellipse "h", a
\* group "g", which yields no command, and a rectangle "far" in another tile
SizesDoc ==
    [id \in {"r", "k11", "k13", "k31", "k33", "k39", "k77", "k81", "k88", "h", "g", "far"} |->
        CASE id = "r" -> FigmaNode(id, "CANVAS", TRUE, 0, 0, 0, 0,
                                   <<"k11", "k13", "k31", "k33", "k39", "k77", "k81",
                                     "k88", "h", "g", "far">>)
          [] id = "k11" -> FigmaNode(id, "RECTANGLE", TRUE, 10, 10, 1, 1, <<>>)
          [] id = "k13" -> FigmaNode(id, "RECTANGLE", TRUE, 20, 10, 1, 3, <<>>)
          [] id = "k31" -> FigmaNode(id, "RECTANGLE", TRUE, 30, 10, 3, 1, <<>>)
          [] id = "k33" -> FigmaNode(id, "RECTANGLE", TRUE, 40, 10, 3, 3, <<>>)
          [] id = "k39" -> FigmaNode(id, "RECTANGLE", TRUE, 50, 10, 3, 9, <<>>)
          [] id = "k77" -> FigmaNode(id, "RECTANGLE", TRUE, 60, 10, 7, 7, <<>>)
          [] id = "k81" -> FigmaNode(id, "RECTANGLE", TRUE, 70, 10, 8, 1, <<>>)
          [] id = "k88" -> FigmaNode(id, "RECTANGLE", TRUE, 80, 10, 8, 8, <<>>)
          [] id = "h" -> FigmaNode(id, "ELLIPSE", FALSE, 100, 10, 20, 20, <<>>)
          [] id = "g" -> FigmaNode(id, "GROUP", TRUE, 130, 10, 20, 20, <<>>)
          [] id = "far" -> FigmaNode(id, "RECTANGLE", TRUE, 5000, 10, 20, 20, <<>>)]

\* the root ids the calls are made with
RootIds == {"r", "a"}

\* command_type of FigmaNode::to_draw_command, "none" for no command
CommandType(node) ==
    IF ~node.visible THEN "none"
    ELSE IF node.node_type \in {"RECTANGLE", "FRAME", "COMPONENT", "INSTANCE"} THEN "rect"
    ELSE IF node.node_type = "ELLIPSE" THEN "ellipse"
    ELSE IF node.node_type \in {"VECTOR", "STAR", "REGULAR_POLYGON", "LINE"} THEN "path"
    ELSE IF node.node_type = "TEXT" THEN "text"
    ELSE "none"

\* FigmaNode::to_draw_command: the command of a node that yields one (its
\* paints, strokes and effects are not modelled)
to_draw_command(node) ==
    [command_type |-> CommandType(node), x |-> node.x, y |-> node.y,
     width |-> node.width, height |-> node.height]

----------------------------------------------------------------------------
(* SpatialIndex (spatial.rs).  The R-tree is the sequence of its leaves:     *)
(* bulk_load keeps every element it is given, and the order in which a query *)
(* returns them is unspecified.                                              *)

NodeBounds(id, min_x, min_y, max_x, max_y) ==
    [id |-> id, min_x |-> min_x, min_y |-> min_y, max_x |-> max_x, max_y |-> max_y]

RECURSIVE collect_bounds_recursive(_, _, _, _), CollectChildren(_, _, _, _, _)

\* mutant of collect_bounds_recursive: a node of any size contributes a leaf
collect_bounds_any_size(node, all_nodes, parent_x, parent_y) ==
    LET abs_x == parent_x + node.x
        abs_y == parent_y + node.y
    IN  <<NodeBounds(node.id, abs_x, abs_y, abs_x + node.width, abs_y + node.height)>>
            \o CollectChildren(node.children, 1, all_nodes, abs_x, abs_y)

\* SpatialIndex::collect_bounds_recursive: the leaves pushed to bounds_list
collect_bounds_recursive(node, all_nodes, parent_x, parent_y) ==
    LET abs_x == parent_x + node.x
        abs_y == parent_y + node.y
        own == IF node.width > 0 /\ node.height > 0
               THEN <<NodeBounds(node.id, abs_x, abs_y,
                                 abs_x + node.width, abs_y + node.height)>>
               ELSE <<>>
    IN  own \o CollectChildren(node.children, 1, all_nodes, abs_x, abs_y)

\* its loop over node.children, from the i-th child on
CollectChildren(children, i, all_nodes, abs_x, abs_y) ==
    IF i > Len(children) THEN <<>>
    ELSE (IF children[i] \in DOMAIN all_nodes
          THEN collect_bounds_recursive(all_nodes[children[i]], all_nodes, abs_x, abs_y)
          ELSE <<>>)
         \o CollectChildren(children, i + 1, all_nodes, abs_x, abs_y)

\* mutant of BoundsMapOf: only the first leaf pushed is inserted
BoundsMapOf_first_only(bounds_list) ==
    [id \in {bounds_list[i].id : i \in 1..Min2(1, Len(bounds_list))} |-> bounds_list[1]]

\* bounds_map after the inserts of collect_bounds_recursive: the last leaf
\* pushed for an id
BoundsMapOf(bounds_list) ==
    [id \in {bounds_list[i].id : i \in 1..Len(bounds_list)} |->
        LET last == CHOOSE i \in 1..Len(bounds_list) :
                        /\ bounds_list[i].id = id
                        /\ \A j \in (i + 1)..Len(bounds_list) : bounds_list[j].id # id
        IN  bounds_list[last]]

\* SpatialIndex::build_with_absolute_coords
build_with_absolute_coords(all_nodes, root_id) ==
    LET bounds_list == IF root_id \in DOMAIN all_nodes
                       THEN collect_bounds_recursive(all_nodes[root_id], all_nodes, 0, 0)
                       ELSE <<>>
    IN  [tree |-> bounds_list, bounds_map |-> BoundsMapOf(bounds_list)]

\* AABB::from_corners: the corners are ordered per axis
AABB(x1, y1, x2, y2) ==
    [lower_x |-> Min2(x1, x2), lower_y |-> Min2(y1, y2),
     upper_x |-> Max2(x1, x2), upper_y |-> Max2(y1, y2)]

\* NodeBounds::envelope
Envelope(nb) == AABB(nb.min_x, nb.min_y, nb.max_x, nb.max_y)

\* AABB::intersects (closed on every edge)
AABBIntersects(a, b) ==
    /\ a.lower_x <= b.upper_x /\ a.upper_x >= b.lower_x
    /\ a.lower_y <= b.upper_y /\ a.upper_y >= b.lower_y

Ids(leaves) == [i \in 1..Len(leaves) |-> leaves[i].id]

\* SpatialIndex::query_rect
query_rect(index, min_x, min_y, max_x, max_y) ==
    LET envelope == AABB(min_x, min_y, max_x, max_y)
    IN  Ids(SelectSeq(index.tree, LAMBDA nb : AABBIntersects(Envelope(nb), envelope)))

\* mutant of contains_point: the edges are left out
contains_point_open(nb, x, y) ==
    x > nb.min_x /\ x < nb.max_x /\ y > nb.min_y /\ y < nb.max_y

\* NodeBounds::contains_point, the PointDistance::contains_point of a leaf
contains_point(nb, x, y) ==
    x >= nb.min_x /\ x <= nb.max_x /\ y >= nb.min_y /\ y <= nb.max_y

\* SpatialIndex::query_point: locate_all_at_point yields the leaves that
\* contain the point
query_point(index, x, y) ==
    Ids(SelectSeq(index.tree, LAMBDA nb : contains_point(nb, x, y)))

SetMin(S) == CHOOSE m \in S : \A n \in S : m <= n
SetMax(S) == CHOOSE m \in S : \A n \in S : m >= n

\* Option<T>
None == [tag |-> "None"]
Some(v) == [tag |-> "Some", val |-> v]

\* SpatialIndex::overall_bounds: None for an empty tree, else the hull of the
\* values of bounds_map
overall_bounds(index) ==
    IF Len(index.tree) = 0 THEN None
    ELSE LET values == {index.bounds_map[id] : id \in DOMAIN index.bounds_map}
         IN  Some(NodeBounds("", SetMin({b.min_x : b \in values}),
                                 SetMin({b.min_y : b \in values}),
                                 SetMax({b.max_x : b \in values}),
                                 SetMax({b.max_y : b \in values})))

\* SpatialIndex::get_node_bounds
HasNodeBounds(index, id) == id \in DOMAIN index.bounds_map
get_node_bounds(index, id) == index.bounds_map[id]

----------------------------------------------------------------------------
(* TileGrid (tiles.rs).  A grid value is [tiles, max_cached_tiles,          *)
(* access_counter]; tiles maps the cached coords to their Tile.              *)

Grid(tl, cap, counter) ==
    [tiles |-> tl, max_cached_tiles |-> cap, access_counter |-> counter]

NoTiles == [c \in {} |-> 0]

\* HashMap::insert and HashMap::remove on tiles
Insert(tl, coord, tile) ==
    [c \in (DOMAIN tl) \cup {coord} |-> IF c = coord THEN tile ELSE tl[c]]
Remove(tl, coord) == [c \in (DOMAIN tl) \ {coord} |-> tl[c]]

\* min_visible_size = 1.0 / simplification for simplification 1, 0.5, 0.25, 0.125
min_visible_size(lod) ==
    IF lod = 0 THEN 1 ELSE IF lod = 1 THEN 2 ELSE IF lod = 2 THEN 4 ELSE 8

\* the commands loop of generate_tile, from the i-th id on
RECURSIVE TileCommands(_, _, _, _)

\* mutant of TileCommands: a node below the threshold in one dimension is skipped
TileCommands_either(node_ids, i, lod, all_nodes) ==
    IF i > Len(node_ids) THEN <<>>
    ELSE LET id == node_ids[i]
             rest == TileCommands(node_ids, i + 1, lod, all_nodes)
         IN  IF id \notin DOMAIN all_nodes THEN rest
             ELSE IF \/ all_nodes[id].width < min_visible_size(lod)
                     \/ all_nodes[id].height < min_visible_size(lod) THEN rest
             ELSE IF CommandType(all_nodes[id]) = "none" THEN rest
             ELSE <<to_draw_command(all_nodes[id])>> \o rest

TileCommands(node_ids, i, lod, all_nodes) ==
    IF i > Len(node_ids) THEN <<>>
    ELSE LET id == node_ids[i]
             rest == TileCommands(node_ids, i + 1, lod, all_nodes)
         IN  IF id \notin DOMAIN all_nodes THEN rest
             ELSE IF /\ all_nodes[id].width < min_visible_size(lod)
                     /\ all_nodes[id].height < min_visible_size(lod) THEN rest
             ELSE IF CommandType(all_nodes[id]) = "none" THEN rest
             ELSE <<to_draw_command(all_nodes[id])>> \o rest

\* TileGrid::generate_tile
generate_tile(counter, coord, all_nodes, index) ==
    LET bounds == TileBounds(coord)
        node_ids == query_rect(index, bounds.x, bounds.y,
                               bounds.x + bounds.width, bounds.y + bounds.height)
    IN  [coord |-> coord,
         bounds |-> bounds,
         commands |-> TileCommands(node_ids, 1, coord.zoom_level, all_nodes),
         node_ids |-> node_ids,
         dirty |-> FALSE,
         last_accessed |-> counter]

\* the tile min_by_key(last_accessed) yields.  Among equal keys the HashMap's
\* iteration order decides; no two cached tiles share a last_accessed, since
\* each is a distinct value of access_counter.
OldestCoord(tl) ==
    CHOOSE c \in DOMAIN tl : \A d \in DOMAIN tl : tl[c].last_accessed <= tl[d].last_accessed

\* mutant of evict_lru: the most recently used tile is removed
evict_mru(tl) ==
    IF DOMAIN tl = {} THEN tl
    ELSE Remove(tl, CHOOSE c \in DOMAIN tl :
                        \A d \in DOMAIN tl : tl[c].last_accessed >= tl[d].last_accessed)

\* mutant of evict_lru: nothing is removed
evict_nothing(tl) == tl

\* TileGrid::evict_lru
evict_lru(tl) ==
    IF DOMAIN tl = {} THEN tl ELSE Remove(tl, OldestCoord(tl))

\* mutant of get_or_create_tile: a cached tile is returned whether dirty or not
get_or_create_tile_keep_dirty(g, coord, all_nodes, index) ==
    LET counter == g.access_counter + 1
        touched == IF coord \in DOMAIN g.tiles
                   THEN [g.tiles EXCEPT ![coord].last_accessed = counter]
                   ELSE g.tiles
    IN  IF coord \in DOMAIN g.tiles
        THEN Grid(touched, g.max_cached_tiles, counter)
        ELSE LET kept == IF Cardinality(DOMAIN touched) >= g.max_cached_tiles
                         THEN evict_lru(touched) ELSE touched
             IN  Grid(Insert(kept, coord, generate_tile(counter, coord, all_nodes, index)),
                      g.max_cached_tiles, counter)

\* mutant of get_or_create_tile: a hit leaves last_accessed as it was
get_or_create_tile_no_touch(g, coord, all_nodes, index) ==
    LET counter == g.access_counter + 1
    IN  IF coord \in DOMAIN g.tiles /\ ~g.tiles[coord].dirty
        THEN Grid(g.tiles, g.max_cached_tiles, counter)
        ELSE LET kept == IF Cardinality(DOMAIN g.tiles) >= g.max_cached_tiles
                         THEN evict_lru(g.tiles) ELSE g.tiles
             IN  Grid(Insert(kept, coord, generate_tile(counter, coord, all_nodes, index)),
                      g.max_cached_tiles, counter)

\* TileGrid::get_or_create_tile: the grid after the call; the tile it returns
\* is tiles[coord] of that grid
get_or_create_tile(g, coord, all_nodes, index) ==
    LET counter == g.access_counter + 1
        touched == IF coord \in DOMAIN g.tiles
                   THEN [g.tiles EXCEPT ![coord].last_accessed = counter]
                   ELSE g.tiles
    IN  IF coord \in DOMAIN g.tiles /\ ~g.tiles[coord].dirty
        THEN Grid(touched, g.max_cached_tiles, counter)
        ELSE LET kept == IF Cardinality(DOMAIN touched) >= g.max_cached_tiles
                         THEN evict_lru(touched) ELSE touched
             IN  Grid(Insert(kept, coord, generate_tile(counter, coord, all_nodes, index)),
                      g.max_cached_tiles, counter)

\* the coords of one LOD level in tiles_for_bounds, tx outer and ty inner
LevelCoords(bounds, zoom_level) ==
    LET tile_size == TILE_SIZE * Pow2(zoom_level)
        min_tx == Floor(bounds.min_x, tile_size)
        min_ty == Floor(bounds.min_y, tile_size)
        max_tx == Ceil(bounds.max_x, tile_size)
        max_ty == Ceil(bounds.max_y, tile_size)
        nx == Max2(0, max_tx - min_tx + 1)
        ny == Max2(0, max_ty - min_ty + 1)
    IN  [i \in 1..(nx * ny) |->
            TileCoord(min_tx + ((i - 1) \div ny), min_ty + ((i - 1) % ny), zoom_level)]

\* mutant of tiles_for_bounds: the coarsest level is left out
tiles_for_bounds_3_levels(bounds) ==
    LevelCoords(bounds, 0) \o LevelCoords(bounds, 1) \o LevelCoords(bounds, 2)

\* TileGrid::tiles_for_bounds: for zoom_level in 0..=3
tiles_for_bounds(bounds) ==
    LevelCoords(bounds, 0) \o LevelCoords(bounds, 1)
        \o LevelCoords(bounds, 2) \o LevelCoords(bounds, 3)

\* dirty_tiles of invalidate_for_nodes, from the i-th changed id on: the
\* affected coords that are cached, in the order they are pushed
RECURSIVE DirtyTiles(_, _, _, _)
DirtyTiles(tl, changed_ids, i, index) ==
    IF i > Len(changed_ids) THEN <<>>
    ELSE (IF HasNodeBounds(index, changed_ids[i])
          THEN SelectSeq(tiles_for_bounds(get_node_bounds(index, changed_ids[i])),
                         LAMBDA coord : coord \in DOMAIN tl)
          ELSE <<>>)
         \o DirtyTiles(tl, changed_ids, i + 1, index)

\* mutant of invalidate_for_nodes: the marked tiles also count as accessed
invalidate_for_nodes_touching(g, changed_ids, index) ==
    LET dirty_tiles == DirtyTiles(g.tiles, changed_ids, 1, index)
    IN  [grid |-> Grid([c \in DOMAIN g.tiles |->
                           IF c \in SeqToSet(dirty_tiles)
                           THEN [g.tiles[c] EXCEPT !.dirty = TRUE,
                                                   !.last_accessed = g.access_counter + 1]
                           ELSE g.tiles[c]],
                       g.max_cached_tiles,
                       IF dirty_tiles = <<>> THEN g.access_counter
                       ELSE g.access_counter + 1),
         dirty_tiles |-> dirty_tiles]

\* TileGrid::invalidate_for_nodes: the grid after the call and the Vec returned
invalidate_for_nodes(g, changed_ids, index) ==
    LET dirty_tiles == DirtyTiles(g.tiles, changed_ids, 1, index)
    IN  [grid |-> Grid([c \in DOMAIN g.tiles |->
                           IF c \in SeqToSet(dirty_tiles)
                           THEN [g.tiles[c] EXCEPT !.dirty = TRUE]
                           ELSE g.tiles[c]],
                       g.max_cached_tiles, g.access_counter),
         dirty_tiles |-> dirty_tiles]

\* TileGrid::stats
stats(g) ==
    [cached_tiles |-> Cardinality(DOMAIN g.tiles),
     max_tiles |-> g.max_cached_tiles,
     dirty_tiles |-> Cardinality({c \in DOMAIN g.tiles : g.tiles[c].dirty})]

\* mutant of clear: the access counter starts over
clear_resetting(g) == Grid(NoTiles, g.max_cached_tiles, 0)

\* TileGrid::clear
clear(g) == Grid(NoTiles, g.max_cached_tiles, g.access_counter)

\* TileGrid::with_capacity
with_capacity(cap) == Grid(NoTiles, cap, 0)

----------------------------------------------------------------------------
(* The state of the model *)

\* Result values
Ok(v) == [tag |-> "Ok", val |-> v]
Panic == [tag |-> "Panic"]
\* Err(FigmaError::DecodeError(msg))
DecodeError(msg) == [tag |-> "Err", error |-> "DecodeError", msg |-> msg]

\* std::sync::RwLock: the thread that holds the write guard (0 for none), the
\* threads that hold a read guard, and the poison flag, which is set when a
\* thread panics while it holds the write guard
RwLock == [writer |-> 0, readers |-> {}, poisoned |-> FALSE]

\* RectInfo (corner_radii is not modelled)
RectInfo(x, y, width, height) == [x |-> x, y |-> y, width |-> width, height |-> height]

\* query_nodes_at_point, behind the read guard of the index
query_nodes_at_point(index_opt, x, y) ==
    IF index_opt = None THEN Ok(<<>>) ELSE Ok(query_point(index_opt.val, x, y))

\* mutant of query_nodes_in_rect: a missing index is an error, as in render_tiles
query_nodes_in_rect_strict(index_opt, min_x, min_y, max_x, max_y) ==
    IF index_opt = None THEN DecodeError("Spatial index not initialized")
    ELSE Ok(query_rect(index_opt.val, min_x, min_y, max_x, max_y))

\* query_nodes_in_rect, behind the read guard of the index
query_nodes_in_rect(index_opt, min_x, min_y, max_x, max_y) ==
    IF index_opt = None THEN Ok(<<>>)
    ELSE Ok(query_rect(index_opt.val, min_x, min_y, max_x, max_y))

\* Err(FigmaError::NodeNotFound(id))
NodeNotFound(id) == [tag |-> "Err", error |-> "NodeNotFound", msg |-> id]

RECURSIVE render_node_recursive(_, _, _), RenderChildren(_, _, _)

\* mutant of render_node_recursive: the children's commands come first
render_node_children_first(all_nodes, node, include_children) ==
    (IF include_children THEN RenderChildren(all_nodes, node.children, 1) ELSE <<>>)
        \o (IF CommandType(node) # "none" THEN <<to_draw_command(node)>> ELSE <<>>)

\* render_node_recursive: the commands pushed for node and, when
\* include_children is set, for the children that resolve
render_node_recursive(all_nodes, node, include_children) ==
    (IF CommandType(node) # "none" THEN <<to_draw_command(node)>> ELSE <<>>)
        \o (IF include_children THEN RenderChildren(all_nodes, node.children, 1) ELSE <<>>)

\* its loop over node.children, from the i-th child on
RenderChildren(all_nodes, children, i) ==
    IF i > Len(children) THEN <<>>
    ELSE (IF children[i] \in DOMAIN all_nodes
          THEN render_node_recursive(all_nodes, all_nodes[children[i]], TRUE)
          ELSE <<>>)
         \o RenderChildren(all_nodes, children, i + 1)

\* render_node
render_node(all_nodes, node_id, include_children) ==
    IF node_id \notin DOMAIN all_nodes THEN NodeNotFound(node_id)
    ELSE Ok(render_node_recursive(all_nodes, all_nodes[node_id], include_children))

\* get_document_bounds, behind the read guard of the index
get_document_bounds(index_opt) ==
    IF index_opt = None THEN Ok(None)
    ELSE LET bounds == overall_bounds(index_opt.val)
         IN  IF bounds = None THEN Ok(None)
             ELSE Ok(Some(RectInfo(bounds.val.min_x, bounds.val.min_y,
                                   bounds.val.max_x - bounds.val.min_x,
                                   bounds.val.max_y - bounds.val.min_y)))

\* no thread is inside a call: the calls are made one after the other
NoThreads == <<>>

\* no KiwiDecoder at hand: decode_figma_message drops its own before it returns
NoDecoder == None

\* what a call made on its own leaves as it found it
sequential == <<spatial_index_lock, threads, decoder>>

CurGrid == Grid(tiles, max_cached_tiles, access_counter)

SetGrid(g) ==
    /\ tiles' = g.tiles
    /\ max_cached_tiles' = g.max_cached_tiles
    /\ access_counter' = g.access_counter

\* mutant of api_get_visible_tiles: the visible tiles that are cached dirty
\* are marked clean
api_get_visible_tiles_cleaning(g, lock, viewport) ==
    [grid |-> Grid([c \in DOMAIN g.tiles |->
                       IF c \in SeqToSet(get_visible_tiles(viewport))
                       THEN [g.tiles[c] EXCEPT !.dirty = FALSE]
                       ELSE g.tiles[c]],
                   g.max_cached_tiles, g.access_counter),
     ret |-> IF lock.poisoned \/ VisCapacityPanics(viewport) THEN Panic
             ELSE Ok(get_visible_tiles(viewport))]

\* get_visible_tiles of api.rs: tile_grid.read().unwrap() panics on a poisoned
\* lock; the grid is borrowed immutably, so the grid after the call is the grid
\* before it; the coords are those of TileGrid::get_visible_tiles
api_get_visible_tiles(g, lock, viewport) ==
    [grid |-> g,
     ret |-> IF lock.poisoned \/ VisCapacityPanics(viewport) THEN Panic
             ELSE Ok(get_visible_tiles(viewport))]

----------------------------------------------------------------------------
(* SpecLRU: one TileGrid made by with_capacity, driven through its own       *)
(* methods with the index built from the sample document's page.             *)

\* the five coords A, B, C, D, E that are looked up
CoordA == TileCoord(0, 0, 0)
CoordB == TileCoord(1, 0, 0)
CoordC == TileCoord(2, 0, 0)
CoordD == TileCoord(0, 0, 1)
CoordE == TileCoord(0, 1, 0)
LruCoords == {CoordA, CoordB, CoordC, CoordD, CoordE}

LruIdLists == {<<"e", "nope">>}

InitLRU ==
    /\ nodes = SampleDoc
    /\ spatial_index = Some(build_with_absolute_coords(SampleDoc, "r"))
    /\ \E cap \in 0..MaxCapLRU :
          /\ tiles = with_capacity(cap).tiles
          /\ max_cached_tiles = with_capacity(cap).max_cached_tiles
          /\ access_counter = with_capacity(cap).access_counter
    /\ op = [name |-> "with_capacity"]
    /\ ret = Ok(<<>>)
    /\ log = <<>>
    /\ spatial_index_lock = RwLock
    /\ tile_grid_lock = RwLock
    /\ threads = NoThreads
    /\ decoder = NoDecoder

GetOrCreateTile(coord) ==
    /\ access_counter < MaxAccessLRU
    /\ \E g \in {get_or_create_tile(CurGrid, coord, nodes, spatial_index.val)} :
          /\ SetGrid(g)
          /\ ret' = Ok(g.tiles[coord])
    /\ op' = [name |-> "get_or_create_tile", coord |-> coord]
    /\ log' = Append(log, coord)
    /\ UNCHANGED <<nodes, spatial_index, tile_grid_lock, sequential>>

InvalidateForNodes(changed_ids) ==
    /\ \E r \in {invalidate_for_nodes(CurGrid, changed_ids, spatial_index.val)} :
          /\ SetGrid(r.grid)
          /\ ret' = Ok(r.dirty_tiles)
    /\ op' = [name |-> "invalidate_for_nodes", changed_ids |-> changed_ids]
    /\ UNCHANGED <<nodes, spatial_index, log, tile_grid_lock, sequential>>

Clear ==
    /\ SetGrid(clear(CurGrid))
    /\ op' = [name |-> "clear"]
    /\ ret' = Ok(<<>>)
    /\ log' = <<>>
    /\ UNCHANGED <<nodes, spatial_index, tile_grid_lock, sequential>>

NextLRU ==
    \/ \E coord \in LruCoords : GetOrCreateTile(coord)
    \/ \E changed_ids \in LruIdLists : InvalidateForNodes(changed_ids)
    \/ Clear

SpecLRU == InitLRU /\ [][NextLRU]_vars

----------------------------------------------------------------------------
(* Spec: the tile API of api.rs on one loaded document, its calls made one   *)
(* after the other.  load_figma_file makes the grid with TileGrid::new(),    *)
(* whose capacity is MAX_CACHED_TILES = 256; the model draws a capacity of   *)
(* 1..MaxCap in its place, so that a full cache is within reach.             *)

\* the viewports the calls are made with: the tile (0,0,0), the tiles (0,0,0)
\* and (1,0,0), the tile (0,0,3), and a viewport of negative width, for which
\* the capacity of the Vec of coords is negative
Viewports ==
    {Viewport(0, 0, 0, 0, 1000), Viewport(0, 0, 1024, 0, 1000),
     Viewport(0, 0, 0, 0, 100), Viewport(0, 0, -3000, 0, 1000)}

\* the viewports get_visible_tiles is called with
VisibleViewports == {Viewport(0, 0, 1024, 0, 1000), Viewport(0, 0, -3000, 0, 1000)}

\* the coords render_single_tile is called with (zoom_level is any u8)
SingleCoords == {TileCoord(1, 0, 0), TileCoord(0, 0, 4)}

\* the id lists invalidate_tiles is called with
IdLists == {<<"f", "a">>, <<"t", "nope">>}

Init ==
    /\ nodes = SampleDoc
    /\ spatial_index = None
    /\ tiles = NoTiles
    /\ max_cached_tiles \in 1..MaxCap
    /\ access_counter = 0
    /\ op = [name |-> "load_figma_file"]
    /\ ret = Ok(<<>>)
    /\ log = <<>>
    /\ spatial_index_lock = RwLock
    /\ tile_grid_lock = RwLock
    /\ threads = NoThreads
    /\ decoder = NoDecoder

\* TileRenderResult built from the tile get_or_create_tile returns
TileRenderResult(tile) ==
    [coord |-> tile.coord, bounds |-> tile.bounds, commands |-> tile.commands,
     node_count |-> Len(tile.node_ids), from_cache |-> ~tile.dirty]

\* how a lookup finds its coord in the cache (recorded in op, not program state)
LookupKind(g, coord) ==
    IF coord \notin DOMAIN g.tiles THEN "absent"
    ELSE IF g.tiles[coord].dirty THEN "dirty" ELSE "clean"

\* one pass of the loop of render_tiles
RenderStep(acc, coord, all_nodes, index) ==
    LET g == get_or_create_tile(acc.grid, coord, all_nodes, index)
    IN  [grid |-> g,
         results |-> Append(acc.results, TileRenderResult(g.tiles[coord])),
         lookups |-> Append(acc.lookups, LookupKind(acc.grid, coord))]

\* the loop of render_tiles over visible_coords, from the i-th coord on
RECURSIVE RenderLoop(_, _, _, _, _)
RenderLoop(acc, visible_coords, i, all_nodes, index) ==
    IF i > Len(visible_coords) THEN acc
    ELSE RenderLoop(RenderStep(acc, visible_coords[i], all_nodes, index),
                    visible_coords, i + 1, all_nodes, index)

\* mutant of EnsuredIndex: the index is built anew from root_id on every call
EnsuredIndex_rebuilt(root_id) == build_with_absolute_coords(nodes, root_id)

\* the index a render call works with: the installed one, or the one that
\* init_spatial_index(doc, root_id) builds and installs when there is none
EnsuredIndex(root_id) ==
    IF spatial_index = None
    THEN build_with_absolute_coords(nodes, root_id)
    ELSE spatial_index.val

\* init_spatial_index
InitSpatialIndex(root_id) ==
    /\ \E index \in {build_with_absolute_coords(nodes, root_id)} :
          /\ spatial_index' = Some(index)
          /\ ret' = Ok(Len(index.tree))
    /\ op' = [name |-> "init_spatial_index", root_id |-> root_id]
    /\ UNCHANGED <<nodes, tiles, max_cached_tiles, access_counter, log,
                   tile_grid_lock, sequential>>

\* render_tiles: the index is ensured first, then the write guard of the grid
\* is taken (Err on a poisoned lock), then get_visible_tiles runs under the
\* guard (its panic poisons the lock), then the loop
RenderTiles(root_id, viewport) ==
    /\ access_counter + Len(get_visible_tiles(viewport)) <= MaxAccess
    /\ spatial_index' = Some(EnsuredIndex(root_id))
    /\ IF tile_grid_lock.poisoned
       THEN /\ ret' = DecodeError("Lock poisoned")
            /\ op' = [name |-> "render_tiles", root_id |-> root_id,
                      viewport |-> viewport, lookups |-> <<>>]
            /\ UNCHANGED <<tiles, max_cached_tiles, access_counter, tile_grid_lock>>
       ELSE IF VisCapacityPanics(viewport)
       THEN /\ ret' = Panic
            /\ op' = [name |-> "render_tiles", root_id |-> root_id,
                      viewport |-> viewport, lookups |-> <<>>]
            /\ tile_grid_lock' = [tile_grid_lock EXCEPT !.poisoned = TRUE]
            /\ UNCHANGED <<tiles, max_cached_tiles, access_counter>>
       ELSE \E r \in {RenderLoop([grid |-> CurGrid, results |-> <<>>, lookups |-> <<>>],
                                 get_visible_tiles(viewport), 1, nodes,
                                 EnsuredIndex(root_id))} :
               /\ SetGrid(r.grid)
               /\ ret' = Ok(r.results)
               /\ op' = [name |-> "render_tiles", root_id |-> root_id,
                         viewport |-> viewport, lookups |-> r.lookups]
               /\ UNCHANGED tile_grid_lock
    /\ UNCHANGED <<nodes, log, sequential>>

\* render_single_tile
RenderSingleTile(root_id, coord) ==
    /\ access_counter + 1 <= MaxAccess
    /\ spatial_index' = Some(EnsuredIndex(root_id))
    /\ IF tile_grid_lock.poisoned
       THEN /\ ret' = DecodeError("Lock poisoned")
            /\ op' = [name |-> "render_single_tile", root_id |-> root_id,
                      coord |-> coord, lookups |-> <<>>]
            /\ UNCHANGED <<tiles, max_cached_tiles, access_counter>>
       ELSE \E r \in {RenderStep([grid |-> CurGrid, results |-> <<>>, lookups |-> <<>>],
                                 coord, nodes, EnsuredIndex(root_id))} :
               /\ SetGrid(r.grid)
               /\ ret' = Ok(r.results[1])
               /\ op' = [name |-> "render_single_tile", root_id |-> root_id,
                         coord |-> coord, lookups |-> r.lookups]
    /\ UNCHANGED <<nodes, log, tile_grid_lock, sequential>>

\* invalidate_tiles
InvalidateTiles(changed_node_ids) ==
    /\ IF spatial_index = None
       THEN /\ ret' = Ok(<<>>)
            /\ UNCHANGED <<tiles, max_cached_tiles, access_counter>>
       ELSE IF tile_grid_lock.poisoned
       THEN /\ ret' = DecodeError("Lock poisoned")
            /\ UNCHANGED <<tiles, max_cached_tiles, access_counter>>
       ELSE \E r \in {invalidate_for_nodes(CurGrid, changed_node_ids, spatial_index.val)} :
               /\ SetGrid(r.grid)
               /\ ret' = Ok(r.dirty_tiles)
    /\ op' = [name |-> "invalidate_tiles", changed_node_ids |-> changed_node_ids]
    /\ UNCHANGED <<nodes, spatial_index, log, tile_grid_lock, sequential>>

\* clear_tile_cache
ClearTileCache ==
    /\ IF tile_grid_lock.poisoned
       THEN /\ ret' = DecodeError("Lock poisoned")
            /\ UNCHANGED <<tiles, max_cached_tiles, access_counter>>
       ELSE /\ SetGrid(clear(CurGrid))
            /\ ret' = Ok(<<>>)
    /\ op' = [name |-> "clear_tile_cache"]
    /\ UNCHANGED <<nodes, spatial_index, log, tile_grid_lock, sequential>>

\* get_tile_cache_stats
GetTileCacheStats ==
    /\ ret' = IF tile_grid_lock.poisoned THEN DecodeError("Lock poisoned")
              ELSE Ok(stats(CurGrid))
    /\ op' = [name |-> "get_tile_cache_stats"]
    /\ UNCHANGED <<nodes, spatial_index, tiles, max_cached_tiles, access_counter, log,
                   tile_grid_lock, sequential>>

\* get_visible_tiles of api.rs, called with a viewport
GetVisibleTilesOf(viewport) ==
    /\ \E r \in {api_get_visible_tiles(CurGrid, tile_grid_lock, viewport)} :
          /\ SetGrid(r.grid)
          /\ ret' = r.ret
    /\ op' = [name |-> "get_visible_tiles", viewport |-> viewport]
    /\ UNCHANGED <<nodes, spatial_index, log, tile_grid_lock, sequential>>

Next ==
    \/ \E root_id \in RootIds : InitSpatialIndex(root_id)
    \/ \E root_id \in RootIds, viewport \in Viewports : RenderTiles(root_id, viewport)
    \/ \E root_id \in RootIds, coord \in SingleCoords : RenderSingleTile(root_id, coord)
    \/ \E changed_node_ids \in IdLists : InvalidateTiles(changed_node_ids)
    \/ ClearTileCache
    \/ \E viewport \in VisibleViewports : GetVisibleTilesOf(viewport)
    \/ GetTileCacheStats

Spec == Init /\ [][Next]_vars

----------------------------------------------------------------------------
(* SpecIdx: the spatial index of one loaded document and the queries on it,  *)
(* with a first render of an empty cache.                                    *)

\* the documents that are loaded
IdxDocs == {EmptyDoc, SampleDoc, OddDoc}

\* the points query_nodes_at_point is called with: corners, edges, insides
\* and outsides of the leaves of the documents
PointXs == {10, 15, 25, 26, 1000, 1050, 1100}
PointYs == {0, 15, 25, 50, 100}

\* the rectangles query_nodes_in_rect is called with: a large one, one that
\* is a corner point of a leaf, one with its corners swapped
Rects == {<<0, 0, 2000, 2000>>, <<1100, 100, 1100, 100>>, <<60, 60, 20, 20>>}

InitIdx ==
    /\ nodes \in IdxDocs
    /\ spatial_index = None
    /\ tiles = NoTiles
    /\ max_cached_tiles = MaxCap
    /\ access_counter = 0
    /\ op = [name |-> "load_figma_file"]
    /\ ret = Ok(<<>>)
    /\ log = <<>>
    /\ spatial_index_lock = RwLock
    /\ tile_grid_lock = RwLock
    /\ threads = NoThreads
    /\ decoder = NoDecoder

\* query_nodes_at_point
QueryNodesAtPoint(x, y) ==
    /\ ret' = query_nodes_at_point(spatial_index, x, y)
    /\ op' = [name |-> "query_nodes_at_point", x |-> x, y |-> y]
    /\ UNCHANGED <<nodes, spatial_index, tiles, max_cached_tiles, access_counter, log,
                   tile_grid_lock, sequential>>

\* query_nodes_in_rect
QueryNodesInRect(min_x, min_y, max_x, max_y) ==
    /\ ret' = query_nodes_in_rect(spatial_index, min_x, min_y, max_x, max_y)
    /\ op' = [name |-> "query_nodes_in_rect", min_x |-> min_x, min_y |-> min_y,
              max_x |-> max_x, max_y |-> max_y]
    /\ UNCHANGED <<nodes, spatial_index, tiles, max_cached_tiles, access_counter, log,
                   tile_grid_lock, sequential>>

\* get_document_bounds
GetDocumentBounds ==
    /\ ret' = get_document_bounds(spatial_index)
    /\ op' = [name |-> "get_document_bounds"]
    /\ UNCHANGED <<nodes, spatial_index, tiles, max_cached_tiles, access_counter, log,
                   tile_grid_lock, sequential>>

\* the ids render_node is called with: pages, frames, leaves, a hidden node
\* and an id no document holds
RenderIds == {"r", "f", "a", "e", "p", "nope"}

\* render_node
RenderNode(node_id, include_children) ==
    /\ ret' = render_node(nodes, node_id, include_children)
    /\ op' = [name |-> "render_node", node_id |-> node_id,
              include_children |-> include_children]
    /\ UNCHANGED <<nodes, spatial_index, tiles, max_cached_tiles, access_counter, log,
                   tile_grid_lock, sequential>>

\* the first render of a document: render_tiles on the empty cache
FirstRenderTiles(root_id, viewport) ==
    /\ tiles = NoTiles
    /\ RenderTiles(root_id, viewport)

NextIdx ==
    \/ \E root_id \in RootIds : InitSpatialIndex(root_id)
    \/ \E x \in PointXs, y \in PointYs : QueryNodesAtPoint(x, y)
    \/ \E r \in Rects : QueryNodesInRect(r[1], r[2], r[3], r[4])
    \/ GetDocumentBounds
    \/ \E node_id \in RenderIds, include_children \in BOOLEAN :
          RenderNode(node_id, include_children)
    \/ \E changed_node_ids \in IdLists : InvalidateTiles(changed_node_ids)
    \/ \E root_id \in RootIds, viewport \in Viewports : FirstRenderTiles(root_id, viewport)

SpecIdx == InitIdx /\ [][NextIdx]_vars

----------------------------------------------------------------------------
(* SpecGen: render_single_tile on a document whose nodes lie around the LOD  *)
(* thresholds, for a coord of each LOD                                       *)

\* the coords that are rendered: the tile at the origin at each LOD, the
\* tile of "far" and a tile no node meets
GenCoords == {TileCoord(0, 0, 0), TileCoord(0, 0, 1), TileCoord(0, 0, 2),
              TileCoord(0, 0, 3), TileCoord(4, 0, 0), TileCoord(0, 3, 0)}

InitGen ==
    /\ nodes = SizesDoc
    /\ spatial_index = None
    /\ tiles = NoTiles
    /\ max_cached_tiles \in 1..MaxCap
    /\ access_counter = 0
    /\ op = [name |-> "load_figma_file"]
    /\ ret = Ok(<<>>)
    /\ log = <<>>
    /\ spatial_index_lock = RwLock
    /\ tile_grid_lock = RwLock
    /\ threads = NoThreads
    /\ decoder = NoDecoder

NextGen == \E coord \in GenCoords : RenderSingleTile("r", coord)

SpecGen == InitGen /\ [][NextGen]_vars

----------------------------------------------------------------------------
(* SpecWalk: one call of init_spatial_index or render_node, the recursion of *)
(* collect_bounds_recursive and render_node_recursive taken one call and one *)
(* return at a time.  threads holds the one host thread: its call stack, a   *)
(* frame per activation of the recursive function, and what the activations  *)
(* have pushed to bounds_list or commands.  The stack of a thread is finite: *)
(* a call that finds it full ends the process (Rust aborts on stack          *)
(* overflow); MaxStack stands for the number of frames that fit.             *)

\* A page "r" with a frame "loop" that lists itself as a child, and frames
\* "p" and "q" that list each other
CyclicDoc ==
    [id \in {"r", "loop", "p", "q"} |->
        CASE id = "r" -> FigmaNode(id, "CANVAS", TRUE, 0, 0, 0, 0, <<"p", "loop">>)
          [] id = "loop" -> FigmaNode(id, "FRAME", TRUE, 10, 10, 30, 30, <<"loop">>)
          [] id = "p" -> FigmaNode(id, "FRAME", TRUE, 100, 0, 50, 50, <<"q">>)
          [] id = "q" -> FigmaNode(id, "RECTANGLE", TRUE, 5, 5, 10, 10, <<"p">>)]

WalkDocs == {SampleDoc, OddDoc, CyclicDoc}

\* the ids the calls are made with
WalkIds == {"r", "f", "a", "p", "loop", "nope"}

WalkCalls ==
    {[name |-> "init_spatial_index", root_id |-> id] : id \in WalkIds}
    \cup {[name |-> "render_node", node_id |-> id, include_children |-> b] :
             id \in WalkIds, b \in BOOLEAN}

\* a call that has been made and has not returned yet
Pending == [tag |-> "Pending"]

\* the process was ended by a stack overflow: the call has not returned
StackOverflow == [tag |-> "StackOverflow"]

\* an activation of the recursive function for the node id: the position of
\* its loop over the children and its abs_x, abs_y (0 in render_node_recursive)
Frame(id, abs_x, abs_y) == [id |-> id, i |-> 1, abs_x |-> abs_x, abs_y |-> abs_y]

\* what an activation does before its loop: collect_bounds_recursive pushes
\* the bounds of a node of positive size, render_node_recursive the command
\* of a node that yields one
EntryOutput(call, node, parent_x, parent_y) ==
    IF call.name = "init_spatial_index"
    THEN IF node.width > 0 /\ node.height > 0
         THEN <<NodeBounds(node.id, parent_x + node.x, parent_y + node.y,
                           parent_x + node.x + node.width,
                           parent_y + node.y + node.height)>>
         ELSE <<>>
    ELSE IF CommandType(node) # "none" THEN <<to_draw_command(node)>> ELSE <<>>

\* the activation for node under a parent at (parent_x, parent_y)
Activation(call, node, parent_x, parent_y) ==
    IF call.name = "init_spatial_index"
    THEN Frame(node.id, parent_x + node.x, parent_y + node.y)
    ELSE Frame(node.id, 0, 0)

\* the children an activation loops over: none without include_children
LoopedChildren(call, node) ==
    IF call.name = "render_node" /\ ~call.include_children THEN <<>> ELSE node.children

InitWalk ==
    /\ nodes \in WalkDocs
    /\ spatial_index = None
    /\ tiles = NoTiles
    /\ max_cached_tiles = MaxCap
    /\ access_counter = 0
    /\ op \in WalkCalls
    /\ ret = Pending
    /\ log = <<>>
    /\ spatial_index_lock = RwLock
    /\ tile_grid_lock = RwLock
    /\ threads = <<[pc |-> "call", stack |-> <<>>, out |-> <<>>]>>
    /\ decoder = NoDecoder

walk_frame == <<nodes, tiles, max_cached_tiles, access_counter, op, log,
                spatial_index_lock, tile_grid_lock, decoder>>

\* the call is made: nodes.get(root_id), doc.file.get_node(&node_id), and the
\* first activation
WalkCall ==
    /\ threads[1].pc = "call"
    /\ \E id \in {IF op.name = "init_spatial_index" THEN op.root_id ELSE op.node_id} :
          IF id \in DOMAIN nodes
          THEN /\ threads' = <<[pc |-> "walk",
                                stack |-> <<Activation(op, nodes[id], 0, 0)>>,
                                out |-> EntryOutput(op, nodes[id], 0, 0)]>>
               /\ ret' = ret
          ELSE IF op.name = "init_spatial_index"
          THEN /\ threads' = <<[pc |-> "walk", stack |-> <<>>, out |-> <<>>]>>
               /\ ret' = ret
          ELSE /\ threads' = <<[pc |-> "done", stack |-> <<>>, out |-> <<>>]>>
               /\ ret' = NodeNotFound(id)
    /\ UNCHANGED <<walk_frame, spatial_index>>

\* one pass of the loop over the children in the innermost activation: a
\* child id that resolves is a recursive call, which needs a frame
WalkChild ==
    /\ threads[1].pc = "walk"
    /\ threads[1].stack # <<>>
    /\ \E depth \in {Len(threads[1].stack)} :
       \E top \in {threads[1].stack[depth]} :
       \E children \in {LoopedChildren(op, nodes[top.id])} :
          /\ top.i <= Len(children)
          /\ IF children[top.i] \notin DOMAIN nodes
             THEN /\ threads' = [threads EXCEPT ![1].stack[depth].i = top.i + 1]
                  /\ ret' = ret
             ELSE IF depth >= MaxStack
             THEN /\ threads' = [threads EXCEPT ![1].pc = "aborted"]
                  /\ ret' = StackOverflow
             ELSE /\ threads' =
                        [threads EXCEPT
                            ![1].stack = Append([@ EXCEPT ![depth].i = top.i + 1],
                                                Activation(op, nodes[children[top.i]],
                                                           top.abs_x, top.abs_y)),
                            ![1].out = @ \o EntryOutput(op, nodes[children[top.i]],
                                                        top.abs_x, top.abs_y)]
                  /\ ret' = ret
    /\ UNCHANGED <<walk_frame, spatial_index>>

\* the loop of the innermost activation is over: it returns to its caller
WalkReturn ==
    /\ threads[1].pc = "walk"
    /\ threads[1].stack # <<>>
    /\ \E depth \in {Len(threads[1].stack)} :
          /\ threads[1].stack[depth].i >
                Len(LoopedChildren(op, nodes[threads[1].stack[depth].id]))
          /\ threads' = [threads EXCEPT ![1].stack = SubSeq(@, 1, depth - 1)]
    /\ UNCHANGED <<walk_frame, spatial_index, ret>>

\* the first activation has returned: init_spatial_index installs the index
\* of bounds_list and returns its size, render_node returns the commands
WalkDone ==
    /\ threads[1].pc = "walk"
    /\ threads[1].stack = <<>>
    /\ threads' = [threads EXCEPT ![1].pc = "done"]
    /\ IF op.name = "init_spatial_index"
       THEN /\ spatial_index' = Some([tree |-> threads[1].out,
                                      bounds_map |-> BoundsMapOf(threads[1].out)])
            /\ ret' = Ok(Len(threads[1].out))
       ELSE /\ spatial_index' = spatial_index
            /\ ret' = Ok(threads[1].out)
    /\ UNCHANGED walk_frame

NextWalk ==
    \/ WalkCall
    \/ WalkChild
    \/ WalkReturn
    \/ WalkDone

SpecWalk == InitWalk /\ [][NextWalk]_vars

\* the host thread is scheduled as long as it has a step to take
FairSpecWalk == SpecWalk /\ WF_vars(NextWalk)

----------------------------------------------------------------------------
(* SpecVis: get_visible_tiles and zoom_to_lod applied to viewports and       *)
(* scales drawn from sets around the tile edges and the LOD thresholds.      *)

\* scales in thousandths: negative, zero, each threshold and its neighbours
Scales == {-1000, 0, 100, 124, 125, 126, 200, 249, 250, 251, 400, 499, 500, 501,
           1000, 4000}

VisViewports ==
    {Viewport(x, y, w, h, s) :
        x \in {-1025, -1024, -1, 0, 1, 1023, 1024, 1500},
        y \in {-1, 0, 1024},
        w \in {-3000, -1, 0, 1, 1024, 1500, 2048},
        h \in {-3000, 0, 1536},
        s \in {100, 200, 400, 500, 1000}}

\* a loaded document and one call, with its argument, about to be made
InitVis ==
    /\ nodes = SampleDoc
    /\ spatial_index = None
    /\ tiles = NoTiles
    /\ max_cached_tiles \in 1..MaxCap
    /\ access_counter = 0
    /\ op \in {[name |-> "get_visible_tiles", viewport |-> v] : v \in VisViewports}
              \cup {[name |-> "zoom_to_lod", scale |-> s] : s \in Scales}
    /\ ret = Pending
    /\ log = <<>>
    /\ spatial_index_lock = RwLock
    /\ tile_grid_lock = RwLock
    /\ threads = NoThreads
    /\ decoder = NoDecoder

\* get_visible_tiles of api.rs, called with the viewport drawn
GetVisibleTiles ==
    /\ op.name = "get_visible_tiles"
    /\ ret = Pending
    /\ \E r \in {api_get_visible_tiles(CurGrid, tile_grid_lock, op.viewport)} :
          /\ SetGrid(r.grid)
          /\ ret' = r.ret
    /\ UNCHANGED <<nodes, spatial_index, op, log, tile_grid_lock, sequential>>

\* zoom_to_lod on its own, as test_zoom_to_lod calls it
ZoomToLod ==
    /\ op.name = "zoom_to_lod"
    /\ ret = Pending
    /\ ret' = Ok(zoom_to_lod(op.scale))
    /\ UNCHANGED <<nodes, spatial_index, tiles, max_cached_tiles, access_counter, op, log,
                   tile_grid_lock, sequential>>

NextVis ==
    \/ GetVisibleTiles
    \/ ZoomToLod

SpecVis == InitVis /\ [][NextVis]_vars

----------------------------------------------------------------------------
(* SpecConc: two host threads call the API on one loaded document at the     *)
(* same time.  A step is what a thread does between two points where another *)
(* thread can run and see a difference: taking or dropping a guard, one push *)
(* of the index build, one pass of a loop under a guard.  No call of this    *)
(* specification panics, so no lock is poisoned in it.                       *)

Threads == {1, 2}

\* the viewport of the tiles (0,0,0) and (1,0,0), which the frame "f" straddles
ConcViewport == Viewport(0, 0, 1024, 0, 1000)

\* the calls a thread can make
ConcCalls ==
    {[name |-> "init_spatial_index", root_id |-> root_id] : root_id \in RootIds}
    \cup {[name |-> "render_tiles", root_id |-> "r", viewport |-> ConcViewport],
          [name |-> "render_single_tile", root_id |-> "a", coord |-> TileCoord(0, 0, 0)],
          [name |-> "invalidate_tiles", changed_node_ids |-> <<"f", "a">>],
          [name |-> "clear_tile_cache"],
          [name |-> "get_tile_cache_stats"],
          [name |-> "get_visible_tiles", viewport |-> ConcViewport],
          [name |-> "query_nodes_at_point", x |-> 1050, y |-> 50],
          [name |-> "query_nodes_in_rect", min_x |-> 0, min_y |-> 0,
           max_x |-> 2000, max_y |-> 2000],
          [name |-> "get_document_bounds"]}

\* a thread: where it is in its call, the call, the locals of the call
\* (bounds_list and index of the build, the Option it found behind the read
\* guard, the coords or ids it loops over, the loop position, what it has
\* collected), what its last call returned, how many calls it has made
IdleThread ==
    [pc |-> "idle", call |-> [name |-> "none"], bounds_list |-> <<>>, index |-> None,
     seen |-> None, items |-> <<>>, i |-> 0, results |-> <<>>, lookups |-> <<>>,
     ret |-> Pending, calls |-> 0]

\* RwLock::read and RwLock::write return when no other thread holds a guard
\* that excludes them
can_read(lock) == lock.writer = 0

\* mutant of can_write: the write guard is granted at once
can_write_always(lock) == TRUE

can_write(lock) == lock.writer = 0 /\ lock.readers = {}

\* the leaves the walk from root_id pushes, in the order it pushes them
FullBoundsList(all_nodes, root_id) ==
    IF root_id \in DOMAIN all_nodes
    THEN collect_bounds_recursive(all_nodes[root_id], all_nodes, 0, 0)
    ELSE <<>>

\* mutant of collect_done: the walk is taken to be over before its first push
collect_done_at_once(bounds_list, all_nodes, root_id) == TRUE

\* collect_bounds_recursive has returned to build_with_absolute_coords
collect_done(bounds_list, all_nodes, root_id) ==
    Len(bounds_list) = Len(FullBoundsList(all_nodes, root_id))

\* where a call starts
FirstPc(name) ==
    CASE name = "init_spatial_index" -> "collect"
      [] name \in {"render_tiles", "render_single_tile"} -> "r_check"
      [] name = "invalidate_tiles" -> "v_read"
      [] name = "clear_tile_cache" -> "c_write"
      [] name \in {"get_tile_cache_stats", "get_visible_tiles"} -> "g_read"
      [] OTHER -> "q_read"

CallsMade == threads[1].calls + threads[2].calls

InitConc ==
    /\ nodes = SampleDoc
    /\ spatial_index = None
    /\ tiles = NoTiles
    /\ max_cached_tiles = MaxCap
    /\ access_counter = 0
    /\ op = [name |-> "load_figma_file"]
    /\ ret = Ok(<<>>)
    /\ log = <<>>
    /\ spatial_index_lock = RwLock
    /\ tile_grid_lock = RwLock
    /\ threads = [t \in Threads |-> IdleThread]
    /\ decoder = NoDecoder

\* what a step of a thread leaves alone besides threads
doc_state == <<nodes, spatial_index, tiles, max_cached_tiles, access_counter>>
grid_state == <<tiles, max_cached_tiles, access_counter>>
last_call == <<op, ret, log, decoder>>

\* a host thread enters a call
StartCall(t, call) ==
    /\ threads[t].pc = "idle"
    /\ CallsMade < MaxCallsConc
    /\ threads' = [threads EXCEPT ![t] =
                      [IdleThread EXCEPT !.pc = FirstPc(call.name), !.call = call,
                                         !.calls = threads[t].calls + 1]]
    /\ UNCHANGED <<doc_state, last_call, spatial_index_lock, tile_grid_lock>>

\* build_with_absolute_coords: one push of collect_bounds_recursive
ICollect(t) ==
    /\ threads[t].pc = "collect"
    /\ ~collect_done(threads[t].bounds_list, nodes, threads[t].call.root_id)
    /\ threads' = [threads EXCEPT ![t].bounds_list =
                      Append(@, FullBoundsList(nodes, threads[t].call.root_id)[Len(@) + 1])]
    /\ UNCHANGED <<doc_state, last_call, spatial_index_lock, tile_grid_lock>>

\* build_with_absolute_coords: RTree::bulk_load and the SpatialIndex value
IBulkLoad(t) ==
    /\ threads[t].pc = "collect"
    /\ collect_done(threads[t].bounds_list, nodes, threads[t].call.root_id)
    /\ threads' = [threads EXCEPT
                      ![t].index = Some([tree |-> threads[t].bounds_list,
                                         bounds_map |-> BoundsMapOf(threads[t].bounds_list)]),
                      ![t].pc = "i_write"]
    /\ UNCHANGED <<doc_state, last_call, spatial_index_lock, tile_grid_lock>>

\* init_spatial_index: doc.spatial_index.write()
IWrite(t) ==
    /\ threads[t].pc = "i_write"
    /\ can_write(spatial_index_lock)
    /\ spatial_index_lock' = [spatial_index_lock EXCEPT !.writer = t]
    /\ threads' = [threads EXCEPT ![t].pc = "i_install"]
    /\ UNCHANGED <<doc_state, last_call, tile_grid_lock>>

\* init_spatial_index: *spatial_lock = Some(index)
IInstall(t) ==
    /\ threads[t].pc = "i_install"
    /\ spatial_index' = threads[t].index
    /\ threads' = [threads EXCEPT ![t].pc = "i_unlock"]
    /\ UNCHANGED <<nodes, grid_state, last_call, spatial_index_lock, tile_grid_lock>>

\* init_spatial_index: the write guard is dropped and Ok(count) returned, to
\* the host or to the render call that found no index
IUnlock(t) ==
    /\ threads[t].pc = "i_unlock"
    /\ spatial_index_lock' = [spatial_index_lock EXCEPT !.writer = 0]
    /\ threads' = [threads EXCEPT ![t] =
                      IF threads[t].call.name = "init_spatial_index"
                      THEN [@ EXCEPT !.pc = "idle",
                                     !.ret = Ok(Len(threads[t].index.val.tree))]
                      ELSE [@ EXCEPT !.pc = "r_read"]]
    /\ UNCHANGED <<doc_state, last_call, tile_grid_lock>>

\* mutant of RCheck: the read guard taken for the is_none test is kept over
\* the call of init_spatial_index
RCheck_keeping_guard(t) ==
    /\ threads[t].pc = "r_check"
    /\ can_read(spatial_index_lock)
    /\ threads' = [threads EXCEPT ![t].pc =
                      IF spatial_index = None THEN "collect" ELSE "r_read"]
    /\ spatial_index_lock' = IF spatial_index = None
                             THEN [spatial_index_lock EXCEPT !.readers = @ \cup {t}]
                             ELSE spatial_index_lock
    /\ UNCHANGED <<doc_state, last_call, tile_grid_lock>>

\* render_tiles, render_single_tile: the block that takes the read guard,
\* tests is_none and drops the guard
RCheck(t) ==
    /\ threads[t].pc = "r_check"
    /\ can_read(spatial_index_lock)
    /\ threads' = [threads EXCEPT ![t].pc =
                      IF spatial_index = None THEN "collect" ELSE "r_read"]
    /\ UNCHANGED <<doc_state, last_call, spatial_index_lock, tile_grid_lock>>

\* render_tiles, render_single_tile: doc.spatial_index.read() and as_ref()
RRead(t) ==
    /\ threads[t].pc = "r_read"
    /\ can_read(spatial_index_lock)
    /\ spatial_index_lock' = [spatial_index_lock EXCEPT !.readers = @ \cup {t}]
    /\ threads' = [threads EXCEPT ![t].seen = spatial_index, ![t].pc = "r_write"]
    /\ UNCHANGED <<doc_state, last_call, tile_grid_lock>>

\* render_tiles, render_single_tile: doc.tile_grid.write(), then the coords
RWrite(t) ==
    /\ threads[t].pc = "r_write"
    /\ can_write(tile_grid_lock)
    /\ tile_grid_lock' = [tile_grid_lock EXCEPT !.writer = t]
    /\ threads' = [threads EXCEPT
                      ![t].items = IF threads[t].call.name = "render_tiles"
                                   THEN get_visible_tiles(threads[t].call.viewport)
                                   ELSE <<threads[t].call.coord>>,
                      ![t].i = 1,
                      ![t].pc = "r_loop"]
    /\ UNCHANGED <<doc_state, last_call, spatial_index_lock>>

\* render_tiles, render_single_tile: get_or_create_tile for the next coord
RLoop(t) ==
    /\ threads[t].pc = "r_loop"
    /\ threads[t].i <= Len(threads[t].items)
    /\ \E r \in {RenderStep([grid |-> CurGrid, results |-> threads[t].results,
                              lookups |-> threads[t].lookups],
                             threads[t].items[threads[t].i], nodes, spatial_index.val)} :
          /\ SetGrid(r.grid)
          /\ threads' = [threads EXCEPT ![t].results = r.results,
                                        ![t].lookups = r.lookups,
                                        ![t].i = @ + 1]
    /\ UNCHANGED <<nodes, spatial_index, last_call, spatial_index_lock, tile_grid_lock>>

\* render_tiles, render_single_tile: Ok(results); both guards are dropped
RReturn(t) ==
    /\ threads[t].pc = "r_loop"
    /\ threads[t].i > Len(threads[t].items)
    /\ tile_grid_lock' = [tile_grid_lock EXCEPT !.writer = 0]
    /\ spatial_index_lock' = [spatial_index_lock EXCEPT !.readers = @ \ {t}]
    /\ threads' = [threads EXCEPT
                      ![t].ret = IF threads[t].call.name = "render_tiles"
                                 THEN Ok(threads[t].results)
                                 ELSE Ok(threads[t].results[1]),
                      ![t].pc = "idle"]
    /\ UNCHANGED <<doc_state, last_call>>

\* invalidate_tiles: doc.spatial_index.read() and the match on as_ref()
VRead(t) ==
    /\ threads[t].pc = "v_read"
    /\ can_read(spatial_index_lock)
    /\ IF spatial_index = None
       THEN /\ threads' = [threads EXCEPT ![t].ret = Ok(<<>>), ![t].pc = "idle"]
            /\ UNCHANGED spatial_index_lock
       ELSE /\ threads' = [threads EXCEPT ![t].seen = spatial_index, ![t].pc = "v_write"]
            /\ spatial_index_lock' = [spatial_index_lock EXCEPT !.readers = @ \cup {t}]
    /\ UNCHANGED <<doc_state, last_call, tile_grid_lock>>

\* invalidate_tiles: doc.tile_grid.write()
VWrite(t) ==
    /\ threads[t].pc = "v_write"
    /\ can_write(tile_grid_lock)
    /\ tile_grid_lock' = [tile_grid_lock EXCEPT !.writer = t]
    /\ threads' = [threads EXCEPT ![t].items = threads[t].call.changed_node_ids,
                                  ![t].i = 1,
                                  ![t].pc = "v_loop"]
    /\ UNCHANGED <<doc_state, last_call, spatial_index_lock>>

\* invalidate_for_nodes: the pass of its loop for the next changed id
VLoop(t) ==
    /\ threads[t].pc = "v_loop"
    /\ threads[t].i <= Len(threads[t].items)
    /\ \E r \in {invalidate_for_nodes(CurGrid, <<threads[t].items[threads[t].i]>>,
                                       spatial_index.val)} :
          /\ SetGrid(r.grid)
          /\ threads' = [threads EXCEPT ![t].results = @ \o r.dirty_tiles,
                                        ![t].i = @ + 1]
    /\ UNCHANGED <<nodes, spatial_index, last_call, spatial_index_lock, tile_grid_lock>>

\* invalidate_tiles: Ok(dirty); both guards are dropped
VReturn(t) ==
    /\ threads[t].pc = "v_loop"
    /\ threads[t].i > Len(threads[t].items)
    /\ tile_grid_lock' = [tile_grid_lock EXCEPT !.writer = 0]
    /\ spatial_index_lock' = [spatial_index_lock EXCEPT !.readers = @ \ {t}]
    /\ threads' = [threads EXCEPT ![t].ret = Ok(threads[t].results), ![t].pc = "idle"]
    /\ UNCHANGED <<doc_state, last_call>>

\* query_nodes_at_point, query_nodes_in_rect, get_document_bounds:
\* doc.spatial_index.read()
QRead(t) ==
    /\ threads[t].pc = "q_read"
    /\ can_read(spatial_index_lock)
    /\ spatial_index_lock' = [spatial_index_lock EXCEPT !.readers = @ \cup {t}]
    /\ threads' = [threads EXCEPT ![t].seen = spatial_index, ![t].pc = "q_query"]
    /\ UNCHANGED <<doc_state, last_call, tile_grid_lock>>

\* query_nodes_at_point, query_nodes_in_rect, get_document_bounds: the match
\* on as_ref() and the query; the guard is dropped on return
QQuery(t) ==
    /\ threads[t].pc = "q_query"
    /\ LET call == threads[t].call
           result == CASE call.name = "query_nodes_at_point" ->
                              query_nodes_at_point(spatial_index, call.x, call.y)
                       [] call.name = "query_nodes_in_rect" ->
                              query_nodes_in_rect(spatial_index, call.min_x, call.min_y,
                                                  call.max_x, call.max_y)
                       [] OTHER -> get_document_bounds(spatial_index)
       IN  threads' = [threads EXCEPT ![t].ret = result, ![t].pc = "idle"]
    /\ spatial_index_lock' = [spatial_index_lock EXCEPT !.readers = @ \ {t}]
    /\ UNCHANGED <<doc_state, last_call, tile_grid_lock>>

\* clear_tile_cache: doc.tile_grid.write()
CWrite(t) ==
    /\ threads[t].pc = "c_write"
    /\ can_write(tile_grid_lock)
    /\ tile_grid_lock' = [tile_grid_lock EXCEPT !.writer = t]
    /\ threads' = [threads EXCEPT ![t].pc = "c_clear"]
    /\ UNCHANGED <<doc_state, last_call, spatial_index_lock>>

\* clear_tile_cache: grid.clear() and Ok(()); the guard is dropped
CClear(t) ==
    /\ threads[t].pc = "c_clear"
    /\ SetGrid(clear(CurGrid))
    /\ tile_grid_lock' = [tile_grid_lock EXCEPT !.writer = 0]
    /\ threads' = [threads EXCEPT ![t].ret = Ok(<<>>), ![t].pc = "idle"]
    /\ UNCHANGED <<nodes, spatial_index, last_call, spatial_index_lock>>

\* get_tile_cache_stats, get_visible_tiles: doc.tile_grid.read()
GRead(t) ==
    /\ threads[t].pc = "g_read"
    /\ can_read(tile_grid_lock)
    /\ tile_grid_lock' = [tile_grid_lock EXCEPT !.readers = @ \cup {t}]
    /\ threads' = [threads EXCEPT ![t].pc = "g_get"]
    /\ UNCHANGED <<doc_state, last_call, spatial_index_lock>>

\* get_tile_cache_stats, get_visible_tiles: grid.stats() or
\* grid.get_visible_tiles(&vp); the guard is dropped on return
GGet(t) ==
    /\ threads[t].pc = "g_get"
    /\ threads' = [threads EXCEPT
                      ![t].ret = IF threads[t].call.name = "get_tile_cache_stats"
                                 THEN Ok(stats(CurGrid))
                                 ELSE api_get_visible_tiles(CurGrid, tile_grid_lock,
                                                            threads[t].call.viewport).ret,
                      ![t].pc = "idle"]
    /\ tile_grid_lock' = [tile_grid_lock EXCEPT !.readers = @ \ {t}]
    /\ UNCHANGED <<doc_state, last_call, spatial_index_lock>>

NextConc ==
    \E t \in Threads :
        \/ \E call \in ConcCalls : StartCall(t, call)
        \/ ICollect(t)
        \/ IBulkLoad(t)
        \/ IWrite(t)
        \/ IInstall(t)
        \/ IUnlock(t)
        \/ RCheck(t)
        \/ RRead(t)
        \/ RWrite(t)
        \/ RLoop(t)
        \/ RReturn(t)
        \/ VRead(t)
        \/ VWrite(t)
        \/ VLoop(t)
        \/ VReturn(t)
        \/ QRead(t)
        \/ QQuery(t)
        \/ CWrite(t)
        \/ CClear(t)
        \/ GRead(t)
        \/ GGet(t)

SpecConc == InitConc /\ [][NextConc]_vars

\* FairSpecConc: the same threads and steps under a scheduler.  The index is
\* absent or is the index of the page "r", the host makes at most
\* MaxCallsFair calls, and a thread inside a call that can take a step is
\* not left waiting for ever: the operating system schedules a runnable
\* thread, and RwLock wakes a waiting thread when the guard it waits for goes.

InitFair ==
    /\ nodes = SampleDoc
    /\ spatial_index \in {None, Some(build_with_absolute_coords(SampleDoc, "r"))}
    /\ tiles = NoTiles
    /\ max_cached_tiles = MaxCap
    /\ access_counter = 0
    /\ op = [name |-> "load_figma_file"]
    /\ ret = Ok(<<>>)
    /\ log = <<>>
    /\ spatial_index_lock = RwLock
    /\ tile_grid_lock = RwLock
    /\ threads = [t \in Threads |-> IdleThread]
    /\ decoder = NoDecoder

\* a host thread enters a call
StartCallFair(t, call) ==
    /\ threads[t].pc = "idle"
    /\ CallsMade < MaxCallsFair
    /\ threads' = [threads EXCEPT ![t] =
                      [IdleThread EXCEPT !.pc = FirstPc(call.name), !.call = call,
                                         !.calls = threads[t].calls + 1]]
    /\ UNCHANGED <<doc_state, last_call, spatial_index_lock, tile_grid_lock>>

\* a step of thread t inside a call it has entered
Proceed(t) ==
    \/ ICollect(t) \/ IBulkLoad(t) \/ IWrite(t) \/ IInstall(t) \/ IUnlock(t)
    \/ RCheck(t) \/ RRead(t) \/ RWrite(t) \/ RLoop(t) \/ RReturn(t)
    \/ VRead(t) \/ VWrite(t) \/ VLoop(t) \/ VReturn(t)
    \/ QRead(t) \/ QQuery(t)
    \/ CWrite(t) \/ CClear(t)
    \/ GRead(t) \/ GGet(t)

NextFair ==
    \E t \in Threads :
        \/ \E call \in ConcCalls : StartCallFair(t, call)
        \/ Proceed(t)

\* the host is free to make no further call; a thread inside a call runs
FairSpecConc ==
    InitFair /\ [][NextFair]_vars /\ \A t \in Threads : WF_vars(Proceed(t))

----------------------------------------------------------------------------
(* Kiwi reader (kiwi.rs).  A byte is a number in 0..255 and a byte slice a   *)
(* sequence of bytes; position p of the source is element p + 1 here.  An    *)
(* unsigned integer of the source (u32, u64, usize) is the set of the        *)
(* positions of its one bits, so that `<<`, `|` and `as` keep their width;   *)
(* an f32 is its bit pattern.  overflow_checks tells whether the build       *)
(* panics on arithmetic overflow (debug profile) or wraps (release profile). *)

\* `let x = e; F(x)`: F of the value of e, which is computed once
With(e, F(_)) == CHOOSE y \in {F(x) : x \in {e}} : TRUE

\* the unsigned integer of a number below 2^16
U64(n) == {i \in 0..15 : (n \div Pow2(i)) % 2 = 1}

\* the number of an unsigned integer below 2^16
RECURSIVE Number(_)
Number(bits) ==
    IF bits = {} THEN 0
    ELSE With(CHOOSE j \in bits : TRUE, LAMBDA i : Pow2(i) + Number(bits \ {i}))

\* v << s and v >> s at a width, the bits shifted out being lost
Shl(bits, s, width) == {i + s : i \in bits} \cap 0..(width - 1)
Shr(bits, s) == {i - s : i \in {j \in bits : j >= s}}

\* FigmaError::DecodeError("Unexpected end of data")
EndOfData == DecodeError("Unexpected end of data")

\* the loop of read_varint and of read_varint_at from position pos on, with
\* result and shift as they stand: a shift of 64 or more panics where
\* overflow is checked and is taken modulo 64 where it is not
RECURSIVE VarintLoop(_, _, _, _, _)
VarintLoop(data, pos, result, shift, overflow_checks) ==
    IF pos >= Len(data) THEN [pos |-> pos, ret |-> EndOfData]
    ELSE IF shift >= 64 /\ overflow_checks THEN [pos |-> pos + 1, ret |-> Panic]
    ELSE \* result |= ((byte & 0x7F) as u64) << shift
         With(result \cup Shl(U64(data[pos + 1] % 128), shift % 64, 64),
              LAMBDA result2 :
                 IF data[pos + 1] < 128 THEN [pos |-> pos + 1, ret |-> Ok(result2)]
                 ELSE VarintLoop(data, pos + 1, result2, shift + 7, overflow_checks))

\* read_varint_at; KiwiDecoder::read_varint is the same code on self.data
\* and self.pos
read_varint_at(data, pos, overflow_checks) == VarintLoop(data, pos, {}, 0, overflow_checks)

\* read_float_at; KiwiDecoder::read_float is the same code on self.data and
\* self.pos.  The value is the bit pattern handed to f32::from_bits.
read_float_at(data, pos) ==
    IF pos >= Len(data) THEN [pos |-> pos, ret |-> EndOfData]
    ELSE IF data[pos + 1] = 0 THEN [pos |-> pos + 1, ret |-> Ok({})]
    ELSE IF pos + 1 + 3 > Len(data) THEN [pos |-> pos + 1, ret |-> EndOfData]
    ELSE With(Shl(U64(data[pos + 1]), 24, 32) \cup Shl(U64(data[pos + 2]), 16, 32)
                 \cup Shl(U64(data[pos + 3]), 8, 32) \cup U64(data[pos + 4]),
              LAMBDA bits : [pos |-> pos + 4, ret |-> Ok(Shl(bits, 23, 32) \cup Shr(bits, 9))])

\* String::from_utf8_lossy on bytes: an ASCII byte is its character, any
\* other byte is shown here as U+FFFD (the strings of this model are ASCII)
from_utf8_lossy(bytes) == [i \in 1..Len(bytes) |-> IF bytes[i] < 128 THEN bytes[i] ELSE 65533]

\* read_string_at; KiwiDecoder::read_string is the same code on self.data
\* and self.pos.  The slice &data[pos..end] panics when pos is beyond the
\* end of the data.
read_string_at(data, pos) ==
    IF pos > Len(data) THEN [pos |-> pos, ret |-> Panic]
    ELSE With(CHOOSE e \in pos..Len(data) :
                 /\ e = Len(data) \/ data[e + 1] = 0
                 /\ \A f \in pos..(e - 1) : data[f + 1] # 0,
              LAMBDA end : [pos |-> end + 1,
                            ret |-> Ok(from_utf8_lossy(SubSeq(data, pos + 1, end)))])

\* the decimal digits of a u32, least significant first, of floor(v / 2^i)
RECURSIVE DoubleAdd(_, _), DecimalDigits(_, _), DigitString(_)
DoubleAdd(digits, carry) ==
    IF digits = <<>> THEN (IF carry = 0 THEN <<>> ELSE <<carry>>)
    ELSE <<(2 * Head(digits) + carry) % 10>>
            \o DoubleAdd(Tail(digits), (2 * Head(digits) + carry) \div 10)
DecimalDigits(bits, i) ==
    IF i > 31 THEN <<>>
    ELSE With(DecimalDigits(bits, i + 1),
              LAMBDA digits : DoubleAdd(digits, IF i \in bits THEN 1 ELSE 0))
DigitString(digits) ==
    IF digits = <<>> THEN ""
    ELSE DigitString(Tail(digits))
            \o <<"0", "1", "2", "3", "4", "5", "6", "7", "8", "9">>[Head(digits) + 1]

\* format!("{}", v) of a u32
format_u32(bits) == IF bits = {} THEN "0" ELSE DigitString(DecimalDigits(bits, 0))

\* KiwiDecoder: data, pos and the field definitions parsed from the schema
KiwiDecoder(data, field_defs) == [data |-> data, pos |-> 0, field_defs |-> field_defs]

\* the decoder moved to where a read at its position ended, with what the
\* read returned
Read(dec, r) == [dec |-> [dec EXCEPT !.pos = r.pos], ret |-> r.ret]

\* KiwiDecoder::read_bool
read_bool(dec) ==
    IF dec.pos >= Len(dec.data) THEN Read(dec, [pos |-> dec.pos, ret |-> EndOfData])
    ELSE Read(dec, [pos |-> dec.pos + 1, ret |-> Ok(dec.data[dec.pos + 1] # 0)])

\* KiwiDecoder::read_varint
read_varint(dec, overflow_checks) ==
    With(read_varint_at(dec.data, dec.pos, overflow_checks), LAMBDA r : Read(dec, r))

\* KiwiDecoder::read_float
read_float(dec) == With(read_float_at(dec.data, dec.pos), LAMBDA r : Read(dec, r))

\* KiwiDecoder::read_string
read_string(dec) == With(read_string_at(dec.data, dec.pos), LAMBDA r : Read(dec, r))

\* KiwiDecoder::read_bytes: self.pos + len overflows usize when len is
\* 2^64 - self.pos or more, which panics where overflow is checked and
\* wraps where it is not; the slice then panics, its end being before its
\* start
read_bytes(dec, overflow_checks) ==
    With(read_varint(dec, overflow_checks), LAMBDA v :
        IF v.ret.tag # "Ok" THEN v
        ELSE With(Number(v.ret.val \cap 0..15), LAMBDA low :
            IF (16..63) \subseteq v.ret.val /\ low + v.dec.pos >= Pow2(16)
            THEN [dec |-> v.dec, ret |-> Panic]
            ELSE IF v.ret.val \cap 16..63 # {} \/ v.dec.pos + low > Len(v.dec.data)
            THEN [dec |-> v.dec, ret |-> EndOfData]
            ELSE [dec |-> [v.dec EXCEPT !.pos = v.dec.pos + low],
                  ret |-> Ok(SubSeq(v.dec.data, v.dec.pos + 1, v.dec.pos + low))]))

\* KiwiDecoder::read_guid
read_guid(dec, overflow_checks) ==
    With(read_varint(dec, overflow_checks), LAMBDA session :
        IF session.ret.tag # "Ok" THEN session
        ELSE With(read_varint(session.dec, overflow_checks), LAMBDA local :
            IF local.ret.tag # "Ok" THEN local
            ELSE [dec |-> local.dec,
                  ret |-> Ok(format_u32(session.ret.val \cap 0..31) \o ":"
                                \o format_u32(local.ret.val \cap 0..31))]))

\* one typed read, named by its kind
ReadOne(dec, kind, overflow_checks) ==
    CASE kind = "bool" -> read_bool(dec)
      [] kind = "varint" -> read_varint(dec, overflow_checks)
      [] kind = "float" -> read_float(dec)
      [] kind = "string" -> read_string(dec)
      [] kind = "bytes" -> read_bytes(dec, overflow_checks)
      [] kind = "guid" -> read_guid(dec, overflow_checks)

\* typed reads one after the other, each `?`-propagated: the values read, or
\* the first failure
RECURSIVE ReadSeq(_, _, _)
ReadSeq(dec, kinds, overflow_checks) ==
    IF kinds = <<>> THEN [dec |-> dec, ret |-> Ok(<<>>)]
    ELSE With(ReadOne(dec, Head(kinds), overflow_checks), LAMBDA r :
        IF r.ret.tag # "Ok" THEN r
        ELSE With(ReadSeq(r.dec, Tail(kinds), overflow_checks), LAMBDA rest :
            IF rest.ret.tag # "Ok" THEN rest
            ELSE [dec |-> rest.dec, ret |-> Ok(<<r.ret.val>> \o rest.ret.val)]))

\* the passes of `for _ in 0..count` that can differ from one another: every
\* pass of the loops below consumes a byte, fails, or leaves all as it is
Passes(count, data) ==
    IF count \subseteq 0..15 THEN Min2(Number(count), Len(data) + 2) ELSE Len(data) + 2

\* KiwiDecoder::skip_message
RECURSIVE skip_message(_, _)
skip_message(dec, overflow_checks) ==
    With(read_varint(dec, overflow_checks), LAMBDA field_index :
        IF field_index.ret.tag # "Ok" THEN field_index
        ELSE IF field_index.ret.val = {} THEN [dec |-> field_index.dec, ret |-> Ok(<<>>)]
        ELSE With(read_varint(field_index.dec, overflow_checks), LAMBDA value :
            IF value.ret.tag # "Ok" THEN value
            ELSE skip_message(value.dec, overflow_checks)))

\* KiwiDecoder::skip_field, with n passes of its loop left
RECURSIVE skip_field(_, _, _, _)
skip_field(dec, field_type, n, overflow_checks) ==
    IF n = 0 THEN [dec |-> dec, ret |-> Ok(<<>>)]
    ELSE With(CASE field_type = 0 -> read_bool(dec)
                [] field_type \in {1, 2, 3} -> read_varint(dec, overflow_checks)
                [] field_type = 4 -> read_float(dec)
                [] field_type = 5 -> read_string(dec)
                [] field_type \in {6, 7} ->
                       ReadSeq(dec, <<"varint", "varint">>, overflow_checks)
                [] OTHER -> skip_message(dec, overflow_checks),
              LAMBDA r : IF r.ret.tag # "Ok" THEN r
                         ELSE skip_field(r.dec, field_type, n - 1, overflow_checks))

\* parse_schema: no field definition, whatever the schema bytes
parse_schema(schema) == Ok(<<>>)

\* the Field next_field returns for a definition and an array length
Field(def, array_length) ==
    [name |-> def.name, field_type |-> def.field_type, array_length |-> array_length]

\* KiwiDecoder::next_field
next_field(dec, overflow_checks) ==
    IF dec.pos >= Len(dec.data) THEN [dec |-> dec, ret |-> Ok(None)]
    ELSE With(read_varint(dec, overflow_checks), LAMBDA field_index :
        IF field_index.ret.tag # "Ok" THEN field_index
        ELSE IF field_index.ret.val = {} THEN [dec |-> field_index.dec, ret |-> Ok(None)]
        ELSE IF \/ ~(field_index.ret.val \subseteq 0..15)
                \/ Number(field_index.ret.val) > Len(dec.field_defs)
        THEN [dec |-> field_index.dec, ret |-> DecodeError("Unknown field index")]
        ELSE With(dec.field_defs[Number(field_index.ret.val)], LAMBDA def :
            IF ~def.is_array
            THEN [dec |-> field_index.dec, ret |-> Ok(Some(Field(def, U64(1))))]
            ELSE With(read_varint(field_index.dec, overflow_checks), LAMBDA array_length :
                IF array_length.ret.tag # "Ok" THEN array_length
                ELSE [dec |-> array_length.dec,
                      ret |-> Ok(Some(Field(def, array_length.ret.val)))])))

\* node_type_name
node_type_name(id) ==
    With(<<"DOCUMENT", "CANVAS", "FRAME", "GROUP", "VECTOR", "BOOLEAN_OPERATION",
           "STAR", "LINE", "ELLIPSE", "REGULAR_POLYGON", "RECTANGLE", "TEXT",
           "SLICE", "COMPONENT", "COMPONENT_SET", "INSTANCE", "STICKY",
           "SHAPE_WITH_TEXT", "CONNECTOR", "SECTION">>,
         LAMBDA names : IF id \subseteq 0..15 /\ Number(id) < Len(names)
                        THEN names[Number(id) + 1] ELSE "UNKNOWN")

\* FigmaNode::default(), the derived Default: every field is the default of
\* its type.  In a node decoded here a float field is the bit pattern of the
\* f32 read (0.0 is the empty pattern) and a String read from the data is
\* the sequence of its characters.
FigmaNode_default ==
    [id |-> "", parent_id |-> None, name |-> <<>>, node_type |-> "", visible |-> FALSE,
     opacity |-> {}, x |-> {}, y |-> {}, width |-> {}, height |-> {}, rotation |-> {},
     children |-> <<>>, fill_paints_data |-> <<>>, stroke_paints_data |-> <<>>,
     effects_data |-> <<>>, stroke_weight |-> {}, corner_radius |-> {},
     corner_radii |-> <<{}, {}, {}, {}>>, vector_data |-> <<>>, text_data |-> <<>>,
     font_name |-> <<>>, font_size |-> {}, layout_mode |-> "", primary_axis_sizing |-> "",
     counter_axis_sizing |-> "", item_spacing |-> {}, padding |-> <<{}, {}, {}, {}>>]

\* the fields decode_node_change has an arm for
NodeFields ==
    {"guid", "parentIndex", "type", "name", "visible", "opacity", "transform", "size",
     "fillPaints", "strokePaints", "effects", "vectorData", "strokeWeight", "cornerRadius",
     "rectangleCornerRadii", "children", "textData", "fontName", "fontSize", "layoutMode",
     "primaryAxisSizingMode", "counterAxisSizingMode", "itemSpacing", "paddingLeft",
     "paddingTop", "paddingRight", "paddingBottom"}

\* the reads of decode_node_change for a field, by its name: read_parent_index
\* is a guid and a string, read_node_type and read_enum a varint,
\* read_transform six floats, read_size two
FieldReads(field, data) ==
    CASE field.name = "guid" -> <<"guid">>
      [] field.name = "parentIndex" -> <<"guid", "string">>
      [] field.name \in {"type", "layoutMode", "primaryAxisSizingMode",
                         "counterAxisSizingMode"} -> <<"varint">>
      [] field.name \in {"name", "fontName"} -> <<"string">>
      [] field.name = "visible" -> <<"bool">>
      [] field.name \in {"opacity", "strokeWeight", "cornerRadius", "fontSize",
                         "itemSpacing", "paddingLeft", "paddingTop", "paddingRight",
                         "paddingBottom"} -> <<"float">>
      [] field.name = "transform" -> <<"float", "float", "float", "float", "float", "float">>
      [] field.name = "size" -> <<"float", "float">>
      [] field.name \in {"fillPaints", "strokePaints", "effects", "vectorData",
                         "textData"} -> <<"bytes">>
      [] field.name = "rectangleCornerRadii" -> <<"float", "float", "float", "float">>
      [] field.name = "children" -> [i \in 1..Passes(field.array_length, data) |-> "guid"]

\* the assignment decode_node_change makes for a field from the values v read
\* for it; a rotation is kept as the arguments of atan2
NodeWith(node, name, v) ==
    CASE name = "guid" -> [node EXCEPT !.id = v[1]]
      [] name = "parentIndex" -> [node EXCEPT !.parent_id = Some(v[1])]
      [] name = "type" -> [node EXCEPT !.node_type = node_type_name(v[1] \cap 0..31)]
      [] name = "name" -> [node EXCEPT !.name = v[1]]
      [] name = "visible" -> [node EXCEPT !.visible = v[1]]
      [] name = "opacity" -> [node EXCEPT !.opacity = v[1]]
      [] name = "transform" ->
             [node EXCEPT !.x = v[5], !.y = v[6], !.rotation = [atan2 |-> <<v[2], v[1]>>]]
      [] name = "size" -> [node EXCEPT !.width = v[1], !.height = v[2]]
      [] name = "fillPaints" -> [node EXCEPT !.fill_paints_data = v[1]]
      [] name = "strokePaints" -> [node EXCEPT !.stroke_paints_data = v[1]]
      [] name = "effects" -> [node EXCEPT !.effects_data = v[1]]
      [] name = "vectorData" -> [node EXCEPT !.vector_data = v[1]]
      [] name = "strokeWeight" -> [node EXCEPT !.stroke_weight = v[1]]
      [] name = "cornerRadius" -> [node EXCEPT !.corner_radius = v[1]]
      [] name = "rectangleCornerRadii" -> [node EXCEPT !.corner_radii = v]
      [] name = "children" -> [node EXCEPT !.children = @ \o v]
      [] name = "textData" -> [node EXCEPT !.text_data = v[1]]
      [] name = "fontName" -> [node EXCEPT !.font_name = v[1]]
      [] name = "fontSize" -> [node EXCEPT !.font_size = v[1]]
      [] name = "layoutMode" -> [node EXCEPT !.layout_mode = format_u32(v[1] \cap 0..31)]
      [] name = "primaryAxisSizingMode" ->
             [node EXCEPT !.primary_axis_sizing = format_u32(v[1] \cap 0..31)]
      [] name = "counterAxisSizingMode" ->
             [node EXCEPT !.counter_axis_sizing = format_u32(v[1] \cap 0..31)]
      [] name = "itemSpacing" -> [node EXCEPT !.item_spacing = v[1]]
      [] name = "paddingLeft" -> [node EXCEPT !.padding[1] = v[1]]
      [] name = "paddingTop" -> [node EXCEPT !.padding[2] = v[1]]
      [] name = "paddingRight" -> [node EXCEPT !.padding[3] = v[1]]
      [] name = "paddingBottom" -> [node EXCEPT !.padding[4] = v[1]]

\* decode_node_change from the node as it stands: FigmaNode_default at the
\* start of the call
RECURSIVE decode_node_change(_, _, _)
decode_node_change(dec, node, overflow_checks) ==
    With(next_field(dec, overflow_checks), LAMBDA f :
        IF f.ret.tag # "Ok" THEN f
        ELSE IF f.ret.val = None THEN [dec |-> f.dec, ret |-> Ok(Some(node))]
        ELSE With(f.ret.val.val, LAMBDA field :
            With(IF field.name \in NodeFields
                 THEN ReadSeq(f.dec, FieldReads(field, dec.data), overflow_checks)
                 ELSE skip_field(f.dec, field.field_type,
                                 Passes(field.array_length, dec.data), overflow_checks),
                 LAMBDA r :
                    IF r.ret.tag # "Ok" THEN r
                    ELSE With(IF field.name \in NodeFields
                              THEN NodeWith(node, field.name, r.ret.val) ELSE node,
                              LAMBDA node2 :
                                 decode_node_change(r.dec, node2, overflow_checks)))))

\* the loop of decode_figma_message over the fields of the root message, from
\* the decoder KiwiDecoder::new made, and inside it the loop over the
\* nodeChanges array with n passes left
RECURSIVE DecodeFields(_, _, _, _), DecodeNodeChanges(_, _, _, _, _)
DecodeNodeChanges(dec, n, nodes_, page_ids, overflow_checks) ==
    IF n = 0 THEN DecodeFields(dec, nodes_, page_ids, overflow_checks)
    ELSE With(decode_node_change(dec, FigmaNode_default, overflow_checks), LAMBDA c :
        IF c.ret.tag # "Ok" THEN c
        ELSE With(c.ret.val.val, LAMBDA node :
            With(Insert(nodes_, node.id, node), LAMBDA nodes2 :
                With(IF node.node_type = "CANVAS" THEN Append(page_ids, node.id)
                     ELSE page_ids,
                     LAMBDA page_ids2 :
                        DecodeNodeChanges(c.dec, n - 1, nodes2, page_ids2,
                                          overflow_checks)))))
DecodeFields(dec, nodes_, page_ids, overflow_checks) ==
    With(next_field(dec, overflow_checks), LAMBDA f :
        IF f.ret.tag # "Ok" THEN f
        ELSE IF f.ret.val = None
        THEN [dec |-> f.dec, ret |-> Ok([nodes |-> nodes_, page_ids |-> page_ids])]
        ELSE With(f.ret.val.val, LAMBDA field :
            IF field.name = "nodeChanges"
            THEN DecodeNodeChanges(f.dec, Passes(field.array_length, dec.data), nodes_,
                                   page_ids, overflow_checks)
            ELSE With(skip_field(f.dec, field.field_type,
                                 Passes(field.array_length, dec.data), overflow_checks),
                      LAMBDA s : IF s.ret.tag # "Ok" THEN s
                                 ELSE DecodeFields(s.dec, nodes_, page_ids,
                                                   overflow_checks))))

\* decode_figma_message
decode_figma_message(schema, data, overflow_checks) ==
    DecodeFields(KiwiDecoder(data, parse_schema(schema).val), EmptyDoc, <<>>,
                 overflow_checks).ret

\* the blob decoders' ColorInfo at pos: data.get(pos + k).copied().unwrap_or(..)
ColorAt(data, pos) ==
    [r |-> IF pos < Len(data) THEN data[pos + 1] ELSE 0,
     g |-> IF pos + 1 < Len(data) THEN data[pos + 2] ELSE 0,
     b |-> IF pos + 2 < Len(data) THEN data[pos + 3] ELSE 0,
     a |-> IF pos + 3 < Len(data) THEN data[pos + 4] ELSE 255]

\* `?`-propagated reads at a position, one after the other: "varint", "float",
\* "string" are read_varint_at, read_float_at, read_string_at, "color" is
\* ColorAt followed by pos += 4, "byte" is data.get(pos) followed by pos += 1
RECURSIVE ReadSeqAt(_, _, _, _)
ReadSeqAt(data, pos, kinds, overflow_checks) ==
    IF kinds = <<>> THEN [pos |-> pos, ret |-> Ok(<<>>)]
    ELSE With(CASE Head(kinds) = "varint" -> read_varint_at(data, pos, overflow_checks)
                [] Head(kinds) = "float" -> read_float_at(data, pos)
                [] Head(kinds) = "string" -> read_string_at(data, pos)
                [] Head(kinds) = "color" ->
                       [pos |-> pos + 4, ret |-> Ok(ColorAt(data, pos))]
                [] Head(kinds) = "byte" ->
                       [pos |-> pos + 1,
                        ret |-> Ok(IF pos < Len(data) THEN Some(data[pos + 1]) ELSE None)],
              LAMBDA r :
                 IF r.ret.tag # "Ok" THEN r
                 ELSE With(ReadSeqAt(data, r.pos, Tail(kinds), overflow_checks),
                           LAMBDA rest :
                              IF rest.ret.tag # "Ok" THEN rest
                              ELSE [pos |-> rest.pos,
                                    ret |-> Ok(<<r.ret.val>> \o rest.ret.val)]))

\* paint_type_name, effect_type_name and blend_mode_name of a u8
paint_type_name(id) ==
    IF id < 6 THEN <<"solid", "gradient_linear", "gradient_radial", "gradient_angular",
                     "gradient_diamond", "image">>[id + 1]
    ELSE "unknown"
effect_type_name(id) ==
    IF id < 4 THEN <<"drop_shadow", "inner_shadow", "layer_blur", "background_blur">>[id + 1]
    ELSE "unknown"
blend_mode_name(id) ==
    IF id < 19 THEN <<"PASS_THROUGH", "NORMAL", "DARKEN", "MULTIPLY", "LINEAR_BURN",
                      "COLOR_BURN", "LIGHTEN", "SCREEN", "LINEAR_DODGE", "COLOR_DODGE",
                      "OVERLAY", "SOFT_LIGHT", "HARD_LIGHT", "DIFFERENCE", "EXCLUSION",
                      "HUE", "SATURATION", "COLOR", "LUMINOSITY">>[id + 1]
    ELSE "NORMAL"

\* the gradient stops of a paint: stop_count passes of a float and a color
RECURSIVE GradientStops(_)
GradientStops(v) ==
    IF v = <<>> THEN <<>>
    ELSE <<[position |-> v[1], color |-> v[2]]>> \o GradientStops(Tail(Tail(v)))

\* what decode_fill_paint_data reads of a paint between its type and its
\* opacity: a color, a count of stops and the stops, an image reference
PaintBody(data, pos, paint_type, overflow_checks) ==
    CASE paint_type = 0 -> ReadSeqAt(data, pos, <<"color">>, overflow_checks)
      [] paint_type \in 1..4 ->
             With(read_varint_at(data, pos, overflow_checks), LAMBDA stop_count :
                IF stop_count.ret.tag # "Ok" THEN stop_count
                ELSE ReadSeqAt(data, stop_count.pos,
                               [i \in 1..(2 * Passes(stop_count.ret.val, data)) |->
                                   IF i % 2 = 1 THEN "float" ELSE "color"],
                               overflow_checks))
      [] paint_type = 5 -> ReadSeqAt(data, pos, <<"string">>, overflow_checks)
      [] OTHER -> [pos |-> pos, ret |-> Ok(<<>>)]

\* the loop of decode_fill_paint_data with n passes left
RECURSIVE DecodePaints(_, _, _, _, _)
DecodePaints(data, pos, n, paints, overflow_checks) ==
    IF n = 0 THEN Ok(paints)
    ELSE With(read_varint_at(data, pos, overflow_checks), LAMBDA t :
        IF t.ret.tag # "Ok" THEN t.ret
        ELSE With(Number(t.ret.val \cap 0..7), LAMBDA paint_type :
            With(PaintBody(data, t.pos, paint_type, overflow_checks), LAMBDA body :
                IF body.ret.tag # "Ok" THEN body.ret
                ELSE With(ReadSeqAt(data, body.pos, <<"float", "varint">>, overflow_checks),
                          LAMBDA tail :
                    IF tail.ret.tag # "Ok" THEN tail.ret
                    ELSE With(Append(paints,
                                 [paint_type |-> paint_type_name(paint_type),
                                  color |-> IF paint_type = 0 THEN Some(body.ret.val[1])
                                            ELSE None,
                                  gradient_stops |-> IF paint_type \in 1..4
                                                     THEN GradientStops(body.ret.val)
                                                     ELSE <<>>,
                                  opacity |-> tail.ret.val[1],
                                  blend_mode |->
                                      blend_mode_name(Number(tail.ret.val[2] \cap 0..7))]),
                              LAMBDA paints2 :
                                 DecodePaints(data, tail.pos, n - 1, paints2,
                                              overflow_checks))))))

\* decode_fill_paint_data
decode_fill_paint_data(data, overflow_checks) ==
    IF data = <<>> THEN Ok(<<>>)
    ELSE With(read_varint_at(data, 0, overflow_checks), LAMBDA count :
        IF count.ret.tag # "Ok" THEN count.ret
        ELSE DecodePaints(data, count.pos, Passes(count.ret.val, data), <<>>,
                          overflow_checks))

\* the loop of decode_effect_data with n passes left
RECURSIVE DecodeEffects(_, _, _, _, _)
DecodeEffects(data, pos, n, effects, overflow_checks) ==
    IF n = 0 THEN Ok(effects)
    ELSE With(ReadSeqAt(data, pos, <<"varint", "byte", "float">>, overflow_checks),
              LAMBDA head :
        IF head.ret.tag # "Ok" THEN head.ret
        ELSE With(Number(head.ret.val[1] \cap 0..7), LAMBDA effect_type :
            With(IF effect_type \in {0, 1}
                 THEN ReadSeqAt(data, head.pos, <<"color", "float", "float", "float">>,
                                overflow_checks)
                 ELSE [pos |-> head.pos, ret |-> Ok(<<None, {}, {}, {}>>)],
                 LAMBDA shadow :
                IF shadow.ret.tag # "Ok" THEN shadow.ret
                ELSE With(Append(effects,
                             [effect_type |-> effect_type_name(effect_type),
                              visible |-> IF head.ret.val[2] = None THEN TRUE
                                          ELSE head.ret.val[2].val # 0,
                              radius |-> head.ret.val[3],
                              color |-> IF effect_type \in {0, 1}
                                        THEN Some(shadow.ret.val[1]) ELSE None,
                              offset_x |-> shadow.ret.val[2],
                              offset_y |-> shadow.ret.val[3],
                              spread |-> shadow.ret.val[4]]),
                          LAMBDA effects2 :
                             DecodeEffects(data, shadow.pos, n - 1, effects2,
                                           overflow_checks)))))

\* decode_effect_data
decode_effect_data(data, overflow_checks) ==
    IF data = <<>> THEN Ok(<<>>)
    ELSE With(read_varint_at(data, 0, overflow_checks), LAMBDA count :
        IF count.ret.tag # "Ok" THEN count.ret
        ELSE DecodeEffects(data, count.pos, Passes(count.ret.val, data), <<>>,
                           overflow_checks))

\* PathData; commands is the sequence of the commands pushed, each its letter
\* and the floats formatted after it (an empty sequence is the empty string)
PathData(commands, fill_rule) == [commands |-> commands, fill_rule |-> fill_rule]

\* the `while pos < data.len()` loop of decode_vector_data
RECURSIVE DecodePath(_, _, _, _)
DecodePath(data, pos, commands, fill_rule) ==
    IF pos >= Len(data) \/ data[pos + 1] \notin 1..5 THEN Ok(PathData(commands, fill_rule))
    ELSE With(ReadSeqAt(data, pos + 1,
                        [i \in 1..(<<2, 2, 6, 4, 0>>[data[pos + 1]]) |-> "float"], FALSE),
              LAMBDA floats :
        IF floats.ret.tag # "Ok" THEN floats.ret
        ELSE With(Append(commands, <<(<<"M", "L", "C", "Q", "Z">>[data[pos + 1]])>>
                                       \o floats.ret.val),
                  LAMBDA commands2 : DecodePath(data, floats.pos, commands2, fill_rule)))

\* decode_vector_data
decode_vector_data(data) ==
    IF data = <<>> THEN Ok(PathData(<<>>, "nonzero"))
    ELSE DecodePath(data, 1, <<>>, IF data[1] = 1 THEN "evenodd" ELSE "nonzero")

\* Result::unwrap_or_default and unwrap_or on what a blob decoder returned
UnwrapOr(r, default) == IF r.tag = "Ok" THEN r.val ELSE default

\* FigmaNode::to_draw_command on a node with blobs: None, or the paints, the
\* effects and, for a command of type "path", the path of the command, or
\* the panic of a decoder
to_draw_command_blobs(node, overflow_checks) ==
    IF CommandType(node) = "none" THEN Ok(None)
    ELSE With(<<decode_fill_paint_data(node.fill_paints_data, overflow_checks),
                decode_fill_paint_data(node.stroke_paints_data, overflow_checks),
                decode_effect_data(node.effects_data, overflow_checks),
                IF CommandType(node) = "path" THEN decode_vector_data(node.vector_data)
                ELSE Ok(None)>>,
              LAMBDA d :
        IF \E i \in 1..4 : d[i] = Panic THEN Panic
        ELSE Ok(Some([command_type |-> CommandType(node),
                      path |-> IF CommandType(node) = "path"
                               THEN Some(UnwrapOr(d[4], PathData(<<>>, "nonzero")))
                               ELSE None,
                      fills |-> UnwrapOr(d[1], <<>>),
                      strokes |-> UnwrapOr(d[2], <<>>),
                      effects |-> UnwrapOr(d[3], <<>>)])))

\* Err(FigmaError::InvalidHeader), Err(FigmaError::IoError(..)) from the `?`
\* of parse_chunks, and Err(FigmaError::DecompressionError(..))
InvalidHeader == [tag |-> "Err", error |-> "InvalidHeader"]
IoError == [tag |-> "Err", error |-> "IoError"]
DecompressionError == [tag |-> "Err", error |-> "DecompressionError"]

\* b"fig-kiwi" and b"fig-kiwie"
FIG_KIWI == <<102, 105, 103, 45, 107, 105, 119, 105>>
FIG_KIWIE == FIG_KIWI \o <<101>>

\* the loop of parse_chunks on the bytes the cursor has left: read_exact of
\* the size fails on fewer than four bytes and ends the loop, a size of 0
\* ends it, read_exact of a body longer than what is left is an IoError
RECURSIVE parse_chunks(_, _)
parse_chunks(rest, chunks) ==
    IF Len(rest) < 4 THEN Ok(chunks)
    ELSE IF SubSeq(rest, 1, 4) = <<0, 0, 0, 0>> THEN Ok(chunks)
    ELSE IF rest[3] # 0 \/ rest[4] # 0 \/ rest[1] + 256 * rest[2] > Len(rest) - 4
    THEN IoError
    ELSE With(rest[1] + 256 * rest[2], LAMBDA size :
            With(<<SubSeq(rest, 5 + size, Len(rest)), Append(chunks, SubSeq(rest, 5, 4 + size))>>,
                 LAMBDA next : parse_chunks(next[1], next[2])))

\* decompress_deflate on the streams of this model: one final stored block
\* (0x01, LEN, NLEN = ~LEN, LEN bytes) inflates to its bytes; anything else
\* the model draws starts with a block of the reserved type 3, which the
\* inflater rejects
decompress_deflate(data) ==
    IF /\ Len(data) >= 5
       /\ data[1] = 1
       /\ data[3] = 0 /\ data[4] = 255 - data[2] /\ data[5] = 255
       /\ Len(data) = 5 + data[2]
    THEN Ok(SubSeq(data, 6, Len(data)))
    ELSE DecompressionError

\* decompress_zstd on the streams of this model: a frame of one raw last
\* block (magic 28 B5 2F FD, descriptor 0x20, content size, block header,
\* the bytes) decodes to its bytes; anything else the model draws lacks the
\* magic, which the decoder rejects
decompress_zstd(data) ==
    IF /\ Len(data) >= 9
       /\ SubSeq(data, 1, 5) = <<40, 181, 47, 253, 32>>
       /\ data[6] < 32
       /\ SubSeq(data, 7, 9) = <<1 + 8 * data[6], 0, 0>>
       /\ Len(data) = 9 + data[6]
    THEN Ok(SubSeq(data, 10, Len(data)))
    ELSE DecompressionError

\* FigFile::parse from the chunks on: &chunks[0] and &chunks[1] panic when
\* the chunk is not there
ParseChunks(chunks, overflow_checks) ==
    IF chunks.tag # "Ok" THEN chunks
    ELSE IF Len(chunks.val) < 1 THEN Panic
    ELSE With(decompress_deflate(chunks.val[1]), LAMBDA schema :
        IF schema.tag # "Ok" THEN schema
        ELSE IF Len(chunks.val) < 2 THEN Panic
        ELSE With(decompress_zstd(chunks.val[2]), LAMBDA message_data :
            IF message_data.tag # "Ok" THEN message_data
            ELSE With(decode_figma_message(schema.val, message_data.val, overflow_checks),
                      LAMBDA decoded :
                IF decoded.tag # "Ok" THEN decoded
                ELSE Ok([name |-> "", version |-> 1, nodes |-> decoded.val.nodes,
                         page_ids |-> decoded.val.page_ids, schema |-> schema.val]))))

\* FigFile::parse.  &data[0..8] panics on fewer than 8 bytes; the guard of the
\* second arm, &data[0..9], is evaluated when the first arm does not match
\* and panics on fewer than 9 bytes
parse(data, overflow_checks) ==
    IF Len(data) < 8 THEN Panic
    ELSE IF SubSeq(data, 1, 8) # FIG_KIWI /\ Len(data) < 9 THEN Panic
    ELSE IF SubSeq(data, 1, 8) # FIG_KIWI /\ SubSeq(data, 1, 9) # FIG_KIWIE
    THEN InvalidHeader
    ELSE With(IF SubSeq(data, 1, 8) = FIG_KIWI THEN 8 ELSE 9, LAMBDA header_len :
            With(parse_chunks(SubSeq(data, header_len + 1, Len(data)), <<>>),
                 LAMBDA chunks : ParseChunks(chunks, overflow_checks)))

\* load_figma_file
load_figma_file(data, overflow_checks) ==
    With(parse(data, overflow_checks), LAMBDA file :
        IF file.tag # "Ok" THEN file
        ELSE Ok([file |-> file.val, render_tree |-> None, spatial_index |-> None,
                 tile_grid |-> with_capacity(256)]))

----------------------------------------------------------------------------
(* SpecReader: the typed reads of a KiwiDecoder, one after the other, on a   *)
(* byte slice that is whole, truncated or malformed                          *)

\* the byte slices read: empty, single bytes, varints of 2, 10 and 11 bytes
\* and a truncated one, strings with and without terminator, byte arrays
\* whole, truncated and of length 2^64 - 1, floats whole and truncated
ReaderInputs ==
    {<<>>, <<0>>, <<1>>, <<128>>, <<172, 2>>, <<97, 98>>, <<97, 0, 98>>, <<2, 7, 9>>,
     <<3, 7, 9>>, <<63, 128>>, <<63, 128, 0, 0>>,
     <<255, 255, 255, 255, 255, 255, 255, 255, 255, 1, 5>>,
     <<128, 128, 128, 128, 128, 128, 128, 128, 128, 128, 1, 0>>,
     <<255, 255, 255, 255, 255, 255, 255, 255, 255, 255, 255>>}

InitReader ==
    /\ nodes = EmptyDoc
    /\ spatial_index = None
    /\ tiles = NoTiles
    /\ max_cached_tiles = MaxCap
    /\ access_counter = 0
    /\ op = [name |-> "KiwiDecoder::new"]
    /\ ret = Ok(<<>>)
    /\ log = <<>>
    /\ spatial_index_lock = RwLock
    /\ tile_grid_lock = RwLock
    /\ threads = NoThreads
    /\ decoder \in {KiwiDecoder(data, <<>>) : data \in ReaderInputs}

\* a typed read of the decoder, in a build with or without overflow checks;
\* after a panic the decoder is read no more
ReadTyped(kind) ==
    /\ ret # Panic
    /\ \E overflow_checks \in BOOLEAN :
          \E r \in {ReadOne(decoder, kind, overflow_checks)} :
              /\ decoder' = r.dec
              /\ ret' = r.ret
              /\ op' = [name |-> kind, pos |-> decoder.pos,
                        overflow_checks |-> overflow_checks]
    /\ UNCHANGED <<nodes, spatial_index, tiles, max_cached_tiles, access_counter, log,
                   spatial_index_lock, tile_grid_lock, threads>>

ReadBool == ReadTyped("bool")
ReadVarint == ReadTyped("varint")
ReadFloat == ReadTyped("float")
ReadString == ReadTyped("string")
ReadBytes == ReadTyped("bytes")
ReadGuid == ReadTyped("guid")

NextReader ==
    \/ ReadBool
    \/ ReadVarint
    \/ ReadFloat
    \/ ReadString
    \/ ReadBytes
    \/ ReadGuid

SpecReader == InitReader /\ [][NextReader]_vars

----------------------------------------------------------------------------
(* SpecKiwi: one call of the decoder on one input                            *)

\* a chunk as the container holds it: its length in four bytes, little
\* endian, and its bytes
Chunk(body) == <<Len(body), 0, 0, 0>> \o body

\* schema chunks: an empty schema as one stored block, and a stream of a
\* reserved block type
SchemaChunks == {<<1, 0, 0, 255, 255>>, <<7>>}

\* message chunks: frames of one raw block holding an empty message, a
\* message of the end marker alone, and one that opens with field 1; and
\* bytes without the frame magic
MessageChunks ==
    {<<40, 181, 47, 253, 32, 0, 1, 0, 0>>, <<40, 181, 47, 253, 32, 1, 9, 0, 0, 0>>,
     <<40, 181, 47, 253, 32, 2, 17, 0, 0, 1, 1>>, <<9, 9>>}

\* what follows the header: nothing, a zero length, a truncated length, a
\* truncated body, one chunk (alone, before a zero length, before a
\* truncated length), two chunks
Bodies ==
    {<<>>, <<0, 0, 0, 0>>, <<5, 0>>, <<5, 0, 0, 0, 1, 0>>, <<0, 0, 1, 0>>}
        \cup {Chunk(s) \o t : s \in SchemaChunks, t \in {<<>>, <<0, 0, 0, 0>>, <<1, 0, 0>>}}
        \cup {Chunk(s) \o Chunk(m) : s \in SchemaChunks, m \in MessageChunks}

\* the inputs of load_figma_file: what is shorter than a header, and the
\* headers "fig-kiwi", "fig-kiwie", "not-kiwi" and "fig-kiwj" before a body
Headers == {FIG_KIWI, FIG_KIWIE, <<110, 111, 116, 45, 107, 105, 119, 105>>,
            <<102, 105, 103, 45, 107, 105, 119, 106>>}
FileInputs ==
    {SubSeq(FIG_KIWI, 1, n) : n \in 0..7} \cup {h \o b : h \in Headers, b \in Bodies}

\* field definitions as a schema of the format gives them, in the order of
\* their indexes: the nodeChanges array of the root message and fields of a
\* node change, "locked" being one decode_node_change has no arm for
NodeFieldDefs ==
    <<[name |-> "nodeChanges", field_type |-> 8, is_array |-> TRUE],
      [name |-> "guid", field_type |-> 8, is_array |-> FALSE],
      [name |-> "type", field_type |-> 2, is_array |-> FALSE],
      [name |-> "visible", field_type |-> 0, is_array |-> FALSE],
      [name |-> "opacity", field_type |-> 4, is_array |-> FALSE],
      [name |-> "locked", field_type |-> 0, is_array |-> FALSE]>>

\* node changes on the wire: each field that is there as its index and its
\* value, then the end marker 0; the visible and opacity fields are drawn
\* from the sets given, <<>> standing for a field that is not there
Visibles == {<<>>, <<4, 0>>, <<4, 1>>}
Opacities == {<<>>, <<5, 63, 0, 0, 0>>}
NodeChangesWith(visibles, opacities) ==
    {guid \o type \o visible \o opacity \o <<0>> :
        guid \in {<<>>, <<2, 1, 1>>, <<2, 1, 2>>},
        type \in {<<3, 1>>, <<3, 10>>},
        visible \in visibles,
        opacity \in opacities}

\* root messages with a nodeChanges array of one or two of the node changes
MessagesOf(changes) ==
    {<<1, 1>> \o c \o <<0>> : c \in changes}
        \cup {<<1, 2>> \o c \o d \o <<0>> : c \in changes, d \in changes}

\* the root messages decoded: the above, and three that are cut short or
\* hold a field that is skipped
Messages ==
    MessagesOf(NodeChangesWith(Visibles, Opacities))
        \cup {<<1, 1, 6, 1, 3, 1, 0, 0>>, <<1, 2, 3, 1, 0>>, <<1, 1, 2, 1>>}

\* the blobs the paint, effect and vector decoders are called with: empty,
\* well-formed for one of them, cut short, and a count of eleven bytes
Blobs ==
    {<<>>, <<0>>, <<1>>, <<1, 0, 10, 20, 30, 255, 0, 1>>, <<1, 0, 10>>,
     <<1, 1, 1, 0, 1, 2, 3, 4, 0, 1>>, <<1, 5, 97, 0, 0, 1>>, <<1, 9, 63>>,
     <<1, 0, 1, 0, 1, 2, 3, 4, 0, 0, 0>>, <<1, 2, 1, 0>>, <<1, 2>>,
     <<1, 5>>, <<0, 1, 0, 0, 5, 0>>, <<0, 1, 63>>, <<0, 9>>, <<2, 3, 63, 0, 0, 0>>,
     <<128, 128, 128, 128, 128, 128, 128, 128, 128, 128, 128>>}

\* the nodes to_draw_command is called on: visible or hidden, of a type that
\* draws a rectangle, a path or nothing, with the same blob in all four of
\* its blob fields
BlobNodes ==
    {[FigmaNode_default EXCEPT !.id = "1:1", !.node_type = t, !.visible = v,
                               !.fill_paints_data = b, !.stroke_paints_data = b,
                               !.effects_data = b, !.vector_data = b] :
        t \in {"RECTANGLE", "VECTOR", "CANVAS"}, v \in BOOLEAN, b \in Blobs}

\* one call about to be made
InitKiwi ==
    /\ nodes = EmptyDoc
    /\ spatial_index = None
    /\ tiles = NoTiles
    /\ max_cached_tiles = MaxCap
    /\ access_counter = 0
    /\ op \in {[name |-> "load_figma_file", data |-> d] : d \in FileInputs}
              \cup {[name |-> "decode_node_changes", data |-> m] : m \in Messages}
              \cup {[name |-> n, data |-> b] :
                        n \in {"decode_fill_paint", "decode_effects", "decode_vector"},
                        b \in Blobs}
              \cup {[name |-> "to_draw_command", node |-> n] : n \in BlobNodes}
    /\ ret = Pending
    /\ log = <<>>
    /\ spatial_index_lock = RwLock
    /\ tile_grid_lock = RwLock
    /\ threads = NoThreads
    /\ decoder = NoDecoder

\* what a call of SpecKiwi leaves alone
document == <<nodes, spatial_index, tiles, max_cached_tiles, access_counter, op, log,
              spatial_index_lock, tile_grid_lock, threads, decoder>>

\* load_figma_file
LoadFigmaFile ==
    /\ op.name = "load_figma_file"
    /\ ret = Pending
    /\ \E overflow_checks \in BOOLEAN : ret' = load_figma_file(op.data, overflow_checks)
    /\ UNCHANGED document

\* the loop of decode_figma_message on a decoder that holds NodeFieldDefs.
\* (parse_schema yields no field definition, so that load_figma_file never
\* gets this far: LoadFigmaFile shows what it does with such a message.)
DecodeNodeChangesOf ==
    /\ op.name = "decode_node_changes"
    /\ ret = Pending
    /\ \E overflow_checks \in BOOLEAN :
          ret' = DecodeFields(KiwiDecoder(op.data, NodeFieldDefs), EmptyDoc, <<>>,
                              overflow_checks).ret
    /\ UNCHANGED document

\* decode_fill_paint, decode_effects and decode_vector of api.rs
DecodeFillPaint ==
    /\ op.name = "decode_fill_paint"
    /\ ret = Pending
    /\ \E overflow_checks \in BOOLEAN : ret' = decode_fill_paint_data(op.data, overflow_checks)
    /\ UNCHANGED document
DecodeEffectsOf ==
    /\ op.name = "decode_effects"
    /\ ret = Pending
    /\ \E overflow_checks \in BOOLEAN : ret' = decode_effect_data(op.data, overflow_checks)
    /\ UNCHANGED document
DecodeVector ==
    /\ op.name = "decode_vector"
    /\ ret = Pending
    /\ ret' = decode_vector_data(op.data)
    /\ UNCHANGED document

\* FigmaNode::to_draw_command
ToDrawCommand ==
    /\ op.name = "to_draw_command"
    /\ ret = Pending
    /\ \E overflow_checks \in BOOLEAN : ret' = to_draw_command_blobs(op.node, overflow_checks)
    /\ UNCHANGED document

NextKiwi ==
    \/ LoadFigmaFile
    \/ DecodeNodeChangesOf
    \/ DecodeFillPaint
    \/ DecodeEffectsOf
    \/ DecodeVector
    \/ ToDrawCommand

SpecKiwi == InitKiwi /\ [][NextKiwi]_vars

----------------------------------------------------------------------------
(* Claims about the LRU cache, checked under SpecLRU *)

\* a lookup step that generates a tile: the coord is absent or cached dirty
GeneratingLookup ==
    /\ op'.name = "get_or_create_tile"
    /\ op'.coord \notin DOMAIN tiles \/ tiles[op'.coord].dirty

Distinct(s) == \A i, j \in 1..Len(s) : i # j => s[i] # s[j]

\* C1: after any sequence of get_or_create_tile, invalidate_for_nodes and
\* clear calls on a grid made by with_capacity(max_cached_tiles), the number
\* of cached tiles is at most max_cached_tiles, for every capacity.
C1_TileCountBounded == Cardinality(DOMAIN tiles) <= max_cached_tiles

\* C2: when a lookup generates a tile and the cache holds max_cached_tiles
\* tiles or more, a tile it removes is the one with the minimum last_accessed
\* when it is evicted (the looked-up coord itself has just been touched), and
\* a lookup of an absent coord in a non-empty cache removes exactly one; with
\* capacity 4 and five distinct coords looked up in order, the cache holds
\* exactly the last four.
C2_EvictsLeastRecentlyUsed ==
    [][/\ (GeneratingLookup /\ Cardinality(DOMAIN tiles) >= max_cached_tiles) =>
            /\ \A c \in (DOMAIN tiles) \ (DOMAIN tiles') :
                  \A d \in (DOMAIN tiles) \ {op'.coord} :
                      tiles[c].last_accessed <= tiles[d].last_accessed
            /\ (op'.coord \notin DOMAIN tiles /\ DOMAIN tiles # {}) =>
                  Cardinality((DOMAIN tiles) \ (DOMAIN tiles')) = 1
       /\ (max_cached_tiles' = 4 /\ Len(log') = 5 /\ Distinct(log')) =>
            DOMAIN tiles' = {log'[2], log'[3], log'[4], log'[5]}
      ]_vars

\* C2 witness: capacity 4, A, B, C, D, E looked up in that order, A evicted
C2_Witness ==
    /\ max_cached_tiles = 4
    /\ log = <<CoordA, CoordB, CoordC, CoordD, CoordE>>
    /\ DOMAIN tiles = {CoordB, CoordC, CoordD, CoordE}

Prefix(s, n) == SubSeq(s, 1, n)

\* C33: with capacity N, after N distinct coords T1..TN were looked up in
\* that order, T1 was looked up again and then a coord not among them, the
\* cache holds T1 and not T2; and a lookup that hits a clean tile leaves the
\* cached coords and every tile as they were, but for that tile's
\* last_accessed, which becomes the incremented access_counter.
C33_CleanHitRefreshesRecency ==
    [][/\ (/\ max_cached_tiles' >= 2
           /\ Len(log') = max_cached_tiles' + 2
           /\ Distinct(Prefix(log', max_cached_tiles'))
           /\ log'[max_cached_tiles' + 1] = log'[1]
           /\ log'[max_cached_tiles' + 2] \notin SeqToSet(Prefix(log', max_cached_tiles'))) =>
              /\ log'[1] \in DOMAIN tiles'
              /\ log'[2] \notin DOMAIN tiles'
              /\ DOMAIN tiles' = (SeqToSet(log') \ {log'[2]})
       /\ (/\ op'.name = "get_or_create_tile"
           /\ op'.coord \in DOMAIN tiles
           /\ ~tiles[op'.coord].dirty) =>
              /\ access_counter' = access_counter + 1
              /\ max_cached_tiles' = max_cached_tiles
              /\ tiles' = [tiles EXCEPT ![op'.coord].last_accessed = access_counter']
              /\ ret' = Ok(tiles'[op'.coord])
      ]_vars

\* C33 witness: capacity 3; A, B, C, then A again, then D: B is gone, A stays
C33_Witness ==
    /\ max_cached_tiles = 3
    /\ log = <<CoordA, CoordB, CoordC, CoordA, CoordD>>
    /\ DOMAIN tiles = {CoordA, CoordC, CoordD}

\* C34: access_counter never decreases, also across clear; the last_accessed
\* of every cached tile is between 1 and access_counter; no two cached tiles
\* have the same last_accessed.
C34_AccessCounterMonotone ==
    [][/\ access_counter' >= access_counter
       /\ \A c \in DOMAIN tiles' :
             1 <= tiles'[c].last_accessed /\ tiles'[c].last_accessed <= access_counter'
       /\ \A c, d \in DOMAIN tiles' :
             c # d => tiles'[c].last_accessed # tiles'[d].last_accessed
      ]_vars

\* C34 witness: two tiles cached by the two lookups made since a clear that
\* came after two earlier lookups
C34_Witness ==
    /\ Len(log) = 2
    /\ access_counter = 4
    /\ Cardinality(DOMAIN tiles) = 2
    /\ \E c \in DOMAIN tiles : tiles[c].last_accessed = 4

\* C35 (as stated; refuted): after invalidate_for_nodes with ids the index
\* has bounds for, every cached tile whose node_ids holds one of them is dirty
C35_InvalidationReachesEveryTile ==
    op.name = "invalidate_for_nodes" =>
        \A id \in SeqToSet(op.changed_ids) \cap DOMAIN spatial_index.val.bounds_map :
        \A c \in DOMAIN tiles :
            id \in SeqToSet(tiles[c].node_ids) => tiles[c].dirty

\* C36 (as stated; refuted): a lookup of a coord that is cached, clean or
\* dirty, removes no other coord from the cache
C36_LookupOfCachedKeepsOthers ==
    [][(op'.name = "get_or_create_tile" /\ op'.coord \in DOMAIN tiles) =>
          DOMAIN tiles' = DOMAIN tiles
      ]_vars

----------------------------------------------------------------------------
(* Claims about rendering and invalidation, checked under Spec *)

\* the results a render call returned
ResultsOf(o, r) ==
    IF r.tag # "Ok" THEN <<>>
    ELSE IF o.name = "render_tiles" THEN r.val ELSE <<r.val>>

IsRender(o) == o.name \in {"render_tiles", "render_single_tile"}

TileSide(zoom_level) == TILE_SIZE * Pow2(zoom_level)

\* the bounds nb meet the region [x*S, (x+1)*S) x [y*S, (y+1)*S) of coord
Covers(nb, coord) ==
    LET S == TileSide(coord.zoom_level)
    IN  /\ nb.min_x < (coord.x + 1) * S /\ nb.max_x >= coord.x * S
        /\ nb.min_y < (coord.y + 1) * S /\ nb.max_y >= coord.y * S

\* coord lies in the tile range of the bounds nb at one of the LODs 0..3:
\* floor(min / S) <= x <= ceil(max / S), and so for y
InCover(nb, coord) ==
    LET S == TileSide(coord.zoom_level)
    IN  /\ coord.zoom_level \in 0..3
        /\ nb.min_x < (coord.x + 1) * S /\ nb.max_x > (coord.x - 1) * S
        /\ nb.min_y < (coord.y + 1) * S /\ nb.max_y > (coord.y - 1) * S

\* the leaves of the index whose bounds meet the closed square of coord
LeavesAt(index, coord) ==
    LET S == TileSide(coord.zoom_level)
    IN  {i \in 1..Len(index.tree) :
            /\ index.tree[i].min_x <= (coord.x + 1) * S
            /\ index.tree[i].max_x >= coord.x * S
            /\ index.tree[i].min_y <= (coord.y + 1) * S
            /\ index.tree[i].max_y >= coord.y * S}

\* the changed ids the installed index has bounds for
IndexedIds(index_opt, changed_ids) ==
    IF index_opt = None THEN {}
    ELSE SeqToSet(changed_ids) \cap DOMAIN index_opt.val.bounds_map

\* C4: for every tile render_tiles or render_single_tile returns, from_cache
\* is true exactly when the lookup was a hit on a clean cached tile, and
\* false when the coord was absent or cached dirty.
C4_FromCacheIsCleanHit ==
    [][IsRender(op') =>
          \A i \in 1..Len(ResultsOf(op', ret')) :
              ResultsOf(op', ret')[i].from_cache = (op'.lookups[i] = "clean")
      ]_vars

\* C5: invalidate_tiles returns every cached coord of a LOD 0..3 that the
\* bounds of a changed, indexed node cover, and marks it dirty; a render call
\* that finds a coord cached dirty returns the tile generated from the
\* installed index for it (node_count and commands), and the tile, where it
\* is still cached after the call, is that fresh one with dirty = false.
C5_InvalidateThenRegenerate ==
    [][/\ (op'.name = "invalidate_tiles" /\ ret'.tag = "Ok") =>
            \A id \in IndexedIds(spatial_index, op'.changed_node_ids) :
            \A c \in DOMAIN tiles :
                (c.zoom_level \in 0..3 /\ Covers(spatial_index.val.bounds_map[id], c)) =>
                    /\ c \in SeqToSet(ret'.val)
                    /\ tiles'[c].dirty
       /\ IsRender(op') =>
            \A i \in 1..Len(ResultsOf(op', ret')) :
                LET res == ResultsOf(op', ret')[i]
                    leaves == LeavesAt(spatial_index'.val, res.coord)
                IN  op'.lookups[i] = "dirty" =>
                        /\ res.node_count = Cardinality(leaves)
                        /\ res.commands =
                              generate_tile(0, res.coord, nodes, spatial_index'.val).commands
                        /\ res.coord \in DOMAIN tiles' =>
                              /\ ~tiles'[res.coord].dirty
                              /\ tiles'[res.coord].commands = res.commands
                              /\ SeqToSet(tiles'[res.coord].node_ids) =
                                    {spatial_index'.val.tree[k].id : k \in leaves}
      ]_vars

\* C5 witness: render_tiles has found a coord cached dirty and left it clean
C5_Witness ==
    /\ op.name = "render_tiles"
    /\ ret.tag = "Ok"
    /\ \E i \in 1..Len(op.lookups) :
          /\ op.lookups[i] = "dirty"
          /\ ret.val[i].coord \in DOMAIN tiles
          /\ ~tiles[ret.val[i].coord].dirty
          /\ ret.val[i].node_count > 0

\* C6: after invalidate_tiles, every cached tile whose coord lies in the tile
\* range of a changed, indexed node's bounds at a LOD 0..3 is dirty.
C6_InvalidateMarksCover ==
    (op.name = "invalidate_tiles" /\ ret.tag = "Ok") =>
        \A id \in IndexedIds(spatial_index, op.changed_node_ids) :
        \A c \in DOMAIN tiles :
            InCover(spatial_index.val.bounds_map[id], c) => tiles[c].dirty

\* C6 witness: an invalidation that marked a cached LOD 3 tile and a LOD 0 tile
C6_Witness ==
    /\ op.name = "invalidate_tiles"
    /\ ret.tag = "Ok"
    /\ \E c, d \in DOMAIN tiles :
          /\ c.zoom_level = 3 /\ tiles[c].dirty /\ c \in SeqToSet(ret.val)
          /\ d.zoom_level = 0 /\ tiles[d].dirty /\ d \in SeqToSet(ret.val)

\* C7: invalidate_tiles returns only coords that are cached and dirty after
\* the call and lie in the tile range of a changed id the index has bounds
\* for; it changes a tile only by setting dirty on such a coord; it adds and
\* removes no tile and changes no last_accessed and not the access_counter.
C7_InvalidateFrame ==
    [][(op'.name = "invalidate_tiles" /\ ret'.tag = "Ok") =>
          LET ids == IndexedIds(spatial_index, op'.changed_node_ids)
              InSomeCover(c) ==
                  \E id \in ids : InCover(spatial_index.val.bounds_map[id], c)
          IN  /\ DOMAIN tiles' = DOMAIN tiles
              /\ access_counter' = access_counter
              /\ max_cached_tiles' = max_cached_tiles
              /\ \A c \in DOMAIN tiles :
                    /\ tiles'[c].last_accessed = tiles[c].last_accessed
                    /\ tiles'[c] # tiles[c] =>
                          /\ tiles'[c] = [tiles[c] EXCEPT !.dirty = TRUE]
                          /\ InSomeCover(c)
              /\ \A k \in 1..Len(ret'.val) :
                    /\ ret'.val[k] \in DOMAIN tiles'
                    /\ tiles'[ret'.val[k]].dirty
                    /\ InSomeCover(ret'.val[k])
      ]_vars

\* C7 witness: an invalidation with an id the index does not hold and one it
\* does, which returned coords
C7_Witness ==
    /\ op.name = "invalidate_tiles"
    /\ op.changed_node_ids = <<"t", "nope">>
    /\ ret.tag = "Ok"
    /\ ret.val # <<>>
    /\ \E c \in DOMAIN tiles : ~tiles[c].dirty

\* C11: get_visible_tiles of api.rs, whether it returns or panics, leaves the
\* cached coords, every tile (dirty and last_accessed included), the
\* access_counter and the capacity as they were, and leaves the spatial index
\* as it was: absent if it was absent.
C11_GetVisibleTilesReadsOnly ==
    [][op'.name = "get_visible_tiles" =>
          /\ tiles' = tiles
          /\ access_counter' = access_counter
          /\ max_cached_tiles' = max_cached_tiles
          /\ spatial_index' = spatial_index
      ]_vars

\* C11 witness: get_visible_tiles has returned a coord that is cached dirty
C11_Witness ==
    /\ op.name = "get_visible_tiles"
    /\ ret.tag = "Ok"
    /\ \E i \in 1..Len(ret.val) :
          ret.val[i] \in DOMAIN tiles /\ tiles[ret.val[i]].dirty

\* C17: a render call that returns Ok leaves an index installed: the one
\* built from its root_id if none was installed, else the one that was
\* installed, whatever its root_id; and every tile it generated was generated
\* from that index.
C17_RenderEnsuresIndex ==
    [][(IsRender(op') /\ ret'.tag = "Ok") =>
          /\ spatial_index' # None
          /\ spatial_index' = IF spatial_index = None
                              THEN Some(build_with_absolute_coords(nodes, op'.root_id))
                              ELSE spatial_index
          /\ \A i \in 1..Len(ResultsOf(op', ret')) :
                LET res == ResultsOf(op', ret')[i]
                    fresh == generate_tile(0, res.coord, nodes, spatial_index'.val)
                IN  op'.lookups[i] # "clean" =>
                        /\ res.commands = fresh.commands
                        /\ res.node_count = Len(fresh.node_ids)
      ]_vars

\* C17 witness: render_tiles called with root "a" has generated a tile with
\* nodes from the index that was built from "r"
C17_Witness ==
    /\ op.name = "render_tiles"
    /\ op.root_id = "a"
    /\ ret.tag = "Ok"
    /\ spatial_index = Some(build_with_absolute_coords(nodes, "r"))
    /\ \E i \in 1..Len(op.lookups) :
          op.lookups[i] = "absent" /\ ret.val[i].node_count >= 2

\* the operations that take a guard of the tile-cache lock once an index is
\* installed
GridOps == {"render_tiles", "render_single_tile", "invalidate_tiles",
            "clear_tile_cache", "get_tile_cache_stats", "get_visible_tiles"}

\* C18: an operation that acquires the tile-cache lock while it is poisoned
\* returns DecodeError and does not panic (init_spatial_index is the only
\* writer of the index lock and cannot panic under it, so that lock is never
\* poisoned).
C18_PoisonedLockIsDecodeError ==
    [][(tile_grid_lock.poisoned /\ op'.name \in GridOps) =>
          /\ ret'.tag # "Panic"
          /\ ret' = DecodeError("Lock poisoned")
      ]_vars

\* C30 (as stated; refuted): every TileCoord held in the tile cache or returned
\* by a render call has a zoom_level among 0, 1, 2, 3
C30_ZoomLevelInRange ==
    /\ \A coord \in DOMAIN tiles : coord.zoom_level \in 0..3
    /\ IsRender(op) =>
          \A i \in 1..Len(ResultsOf(op, ret)) :
              ResultsOf(op, ret)[i].coord.zoom_level \in 0..3

\* C37 (as stated; refuted): every cached tile that is not dirty has as
\* node_ids what query_rect returns for its bounds on the installed index
C37_CleanTilesMatchIndex ==
    \A c \in DOMAIN tiles :
        ~tiles[c].dirty =>
            /\ spatial_index # None
            /\ tiles[c].node_ids =
                  query_rect(spatial_index.val, tiles[c].bounds.x, tiles[c].bounds.y,
                             tiles[c].bounds.x + tiles[c].bounds.width,
                             tiles[c].bounds.y + tiles[c].bounds.height)

----------------------------------------------------------------------------
(* Claims about the spatial index and its queries, checked under SpecIdx *)

\* the ids of the nodes the walk from root_id visits: root_id, if the node map
\* holds it, and every id in the map that a visited node lists as a child
RECURSIVE ReachableFrom(_, _, _)
ReachableFrom(all_nodes, frontier, seen) ==
    IF frontier \subseteq seen THEN seen
    ELSE ReachableFrom(all_nodes,
                       {c \in DOMAIN all_nodes :
                           \E id \in frontier : c \in SeqToSet(all_nodes[id].children)},
                       seen \cup frontier)

Reachable(all_nodes, root_id) ==
    IF root_id \in DOMAIN all_nodes THEN ReachableFrom(all_nodes, {root_id}, {}) ELSE {}

\* a step that installs an index built from op'.root_id
BuildsIndex ==
    /\ op'.name \in {"init_spatial_index", "render_tiles", "render_single_tile"}
    /\ spatial_index' # None
    /\ op'.name = "init_spatial_index" \/ spatial_index = None

\* C12: after the spatial index is built, for every node n of the node map,
\* get_node_bounds(n.id) is present if and only if n.width > 0 and n.height > 0.
C12_BoundsIffPositiveSize ==
    [][BuildsIndex =>
          \A id \in DOMAIN nodes :
              HasNodeBounds(spatial_index'.val, id)
                  <=> (nodes[id].width > 0 /\ nodes[id].height > 0)
      ]_vars

\* C12 as amended: after the spatial index is built from root_id, for every
\* node n of the node map, get_node_bounds(n.id) is present if and only if the
\* walk from root_id visits n and n.width > 0 and n.height > 0.
C12_BoundsIffVisitedPositiveSize ==
    [][BuildsIndex =>
          \A id \in DOMAIN nodes :
              HasNodeBounds(spatial_index'.val, id)
                  <=> (/\ id \in Reachable(nodes, op'.root_id)
                       /\ nodes[id].width > 0 /\ nodes[id].height > 0)
      ]_vars

\* C12 witness: an index built from "r" that has bounds for "s" and none for
\* the visited "n" of negative width nor for the unvisited "u"
C12_Witness ==
    /\ op.name = "init_spatial_index"
    /\ op.root_id = "r"
    /\ nodes = OddDoc
    /\ HasNodeBounds(spatial_index.val, "s")
    /\ ~HasNodeBounds(spatial_index.val, "n")
    /\ ~HasNodeBounds(spatial_index.val, "u")

\* C13: in every installed index the ids of the leaves of the tree are the
\* keys of bounds_map, and every NodeBounds stored, in the tree or in the map,
\* has width >= 0 and height >= 0.
C13_TreeAndMapAgree ==
    spatial_index # None =>
        LET index == spatial_index.val
            stored == SeqToSet(index.tree)
                          \cup {index.bounds_map[id] : id \in DOMAIN index.bounds_map}
        IN  /\ {index.tree[i].id : i \in 1..Len(index.tree)} = DOMAIN index.bounds_map
            /\ \A id \in DOMAIN index.bounds_map : index.bounds_map[id].id = id
            /\ \A nb \in stored : nb.max_x - nb.min_x >= 0 /\ nb.max_y - nb.min_y >= 0

\* C13 witness: an index with more leaves than ids (a node visited twice) and
\* at least two ids
C13_Witness ==
    /\ spatial_index # None
    /\ Len(spatial_index.val.tree) > Cardinality(DOMAIN spatial_index.val.bounds_map)
    /\ Cardinality(DOMAIN spatial_index.val.bounds_map) >= 2

\* the point (x, y) lies on an edge or a corner of the bounds nb
OnBoundary(nb, x, y) ==
    \/ x \in {nb.min_x, nb.max_x} /\ nb.min_y <= y /\ y <= nb.max_y
    \/ y \in {nb.min_y, nb.max_y} /\ nb.min_x <= x /\ x <= nb.max_x

\* C14: on an installed index, every id query_nodes_at_point(x, y) returns is
\* among the ids query_rect(x, y, x, y) returns; it returns the id of every
\* leaf that has (x, y) on an edge or a corner or inside, and of no other.
C14_PointWithinRect ==
    (op.name = "query_nodes_at_point" /\ spatial_index # None) =>
        LET index == spatial_index.val
        IN  /\ SeqToSet(ret.val)
                  \subseteq SeqToSet(query_rect(index, op.x, op.y, op.x, op.y))
            /\ \A i \in 1..Len(index.tree) :
                  OnBoundary(index.tree[i], op.x, op.y) => index.tree[i].id \in SeqToSet(ret.val)
            /\ \A id \in SeqToSet(ret.val) :
                  \E i \in 1..Len(index.tree) :
                      /\ index.tree[i].id = id
                      /\ index.tree[i].min_x <= op.x /\ op.x <= index.tree[i].max_x
                      /\ index.tree[i].min_y <= op.y /\ op.y <= index.tree[i].max_y

\* C14 witness: the point (1100, 100), a corner of the frame "f", is queried
\* and "f" is returned
C14_Witness ==
    /\ op.name = "query_nodes_at_point"
    /\ op.x = 1100 /\ op.y = 100
    /\ spatial_index # None
    /\ ret.val = <<"f">>

\* C15: for a document with no nodes, get_document_bounds returns none,
\* query_nodes_at_point returns the empty list, and render_tiles, when it
\* returns, returns the empty list, for every viewport.
C15_EmptyDocumentYieldsNothing ==
    nodes = EmptyDoc =>
        /\ op.name = "get_document_bounds" => ret = Ok(None)
        /\ op.name = "query_nodes_at_point" => ret = Ok(<<>>)
        /\ (op.name = "render_tiles" /\ ret.tag = "Ok") => ret.val = <<>>

\* C16: while no index is installed, query_nodes_at_point, query_nodes_in_rect
\* and invalidate_tiles return the empty list and get_document_bounds returns
\* none, and each leaves the index absent and the tile cache as it was.
C16_NoIndexYieldsNothing ==
    [][(/\ spatial_index = None
        /\ op'.name \in {"query_nodes_at_point", "query_nodes_in_rect",
                         "get_document_bounds", "invalidate_tiles"}) =>
            /\ ret' = IF op'.name = "get_document_bounds" THEN Ok(None) ELSE Ok(<<>>)
            /\ spatial_index' = None
            /\ tiles' = tiles
            /\ access_counter' = access_counter
            /\ max_cached_tiles' = max_cached_tiles
      ]_vars

\* C16 witness: query_nodes_in_rect has returned the empty list for a
\* rectangle that holds nodes of the document, no index being installed
C16_Witness ==
    /\ nodes = SampleDoc
    /\ spatial_index = None
    /\ op.name = "query_nodes_in_rect"
    /\ op.max_x = 2000
    /\ ret = Ok(<<>>)

\* the walks from a node down its resolving children, each the sequence of
\* the positions taken in the children lists (documents here have no cycle)
RECURSIVE WalksFrom(_, _, _)
WalksFrom(all_nodes, id, fuel) ==
    {<<>>} \cup
    (IF fuel = 0 THEN {}
     ELSE UNION {{<<i>> \o w : w \in WalksFrom(all_nodes, all_nodes[id].children[i], fuel - 1)} :
                    i \in {j \in 1..Len(all_nodes[id].children) :
                              all_nodes[id].children[j] \in DOMAIN all_nodes}})

\* the node a walk from id ends at
RECURSIVE WalkEnd(_, _, _)
WalkEnd(all_nodes, id, w) ==
    IF w = <<>> THEN id ELSE WalkEnd(all_nodes, all_nodes[id].children[Head(w)], Tail(w))

\* v comes before w in depth-first pre-order: v is a proper prefix of w, or
\* at the first position where they differ v takes the earlier child
WalkBefore(v, w) ==
    \/ Len(v) < Len(w) /\ \A k \in 1..Len(v) : v[k] = w[k]
    \/ \E k \in 1..Min2(Len(v), Len(w)) :
          /\ v[k] < w[k]
          /\ \A j \in 1..(k - 1) : v[j] = w[j]

\* the walks of a render_node call that end at a node which draws
DrawnWalks(all_nodes, id, include_children) ==
    {w \in WalksFrom(all_nodes, id, Cardinality(DOMAIN all_nodes)) :
        /\ include_children \/ w = <<>>
        /\ CommandType(all_nodes[WalkEnd(all_nodes, id, w)]) # "none"}

\* C29: render_node returns NodeNotFound exactly when the id is not in the
\* node map; otherwise its commands are those of the node and, with
\* include_children, of its resolving descendants in depth-first pre-order,
\* unresolved child ids being skipped; without include_children there is at
\* most one command
C29_RenderNodePreOrder ==
    op.name = "render_node" =>
        /\ (ret = NodeNotFound(op.node_id)) <=> (op.node_id \notin DOMAIN nodes)
        /\ op.node_id \in DOMAIN nodes =>
              /\ ret.tag = "Ok"
              /\ \E drawn \in {DrawnWalks(nodes, op.node_id, op.include_children)} :
                    /\ Len(ret.val) = Cardinality(drawn)
                    /\ \A w \in drawn :
                          ret.val[1 + Cardinality({v \in drawn : WalkBefore(v, w)})]
                              = to_draw_command(nodes[WalkEnd(nodes, op.node_id, w)])
              /\ ~op.include_children => Len(ret.val) <= 1

\* a page rendered with its children: a frame and its rectangle drawn in
\* that order, a hidden node and an unresolved child id passed over
C29_Witness ==
    /\ op.name = "render_node"
    /\ op.include_children
    /\ ret.tag = "Ok"
    /\ Len(ret.val) >= 3
    /\ \E i \in 1..Len(nodes[op.node_id].children) :
          nodes[op.node_id].children[i] \notin DOMAIN nodes
    /\ \E i \in 1..Len(nodes[op.node_id].children) :
          /\ nodes[op.node_id].children[i] \in DOMAIN nodes
          /\ nodes[nodes[op.node_id].children[i]].children # <<>>

\* C38 (as stated; refuted): an installed index has exactly one leaf for
\* every id of bounds_map, get_node_bounds(id) is that leaf, and the count
\* init_spatial_index returns is the number of ids
C38_OneLeafPerId ==
    /\ spatial_index # None =>
          \A id \in DOMAIN spatial_index.val.bounds_map :
              /\ Cardinality({i \in 1..Len(spatial_index.val.tree) :
                                 spatial_index.val.tree[i].id = id}) = 1
              /\ \A i \in 1..Len(spatial_index.val.tree) :
                    spatial_index.val.tree[i].id = id =>
                        get_node_bounds(spatial_index.val, id) = spatial_index.val.tree[i]
    /\ (op.name = "init_spatial_index" /\ ret.tag = "Ok") =>
          ret.val = Cardinality(DOMAIN spatial_index.val.bounds_map)

----------------------------------------------------------------------------
(* Claims about concurrent calls, checked under SpecConc *)

\* the indexes that a build of the document's nodes from a root id yields
CompleteIndexes == {Some(build_with_absolute_coords(nodes, root_id)) : root_id \in RootIds}

\* C19: under any interleaving of the calls, the installed index is absent or
\* a complete build (tree and bounds_map of one walk); what a reader found
\* behind its read guard is absent or a complete build, and is still what is
\* installed while it holds the guard; the index changes only in the install
\* step of a thread that holds the write guard, no reader holding a guard,
\* and becomes the index that thread has built to the end.
C19_ReadersSeeWholeIndex ==
    [][/\ spatial_index' \in {None} \cup CompleteIndexes
       /\ \A t \in Threads : threads'[t].seen \in {None} \cup CompleteIndexes
       /\ \A t \in spatial_index_lock'.readers : threads'[t].seen = spatial_index'
       /\ spatial_index' # spatial_index =>
             /\ spatial_index_lock.writer \in Threads
             /\ spatial_index_lock.readers = {}
             /\ threads[spatial_index_lock.writer].pc = "i_install"
             /\ spatial_index' = threads[spatial_index_lock.writer].index
             /\ spatial_index' =
                   Some(build_with_absolute_coords(
                            nodes, threads[spatial_index_lock.writer].call.root_id))
      ]_vars

\* C19 witness: a query holds the read guard on an installed index while
\* another thread, its build of a different index complete, waits to write
C19_Witness ==
    \E t1, t2 \in Threads :
        /\ threads[t1].pc = "q_query"
        /\ threads[t1].seen # None
        /\ threads[t2].pc = "i_write"
        /\ threads[t2].index # spatial_index

\* a thread is between taking and dropping the write guard of the tile cache
InGridSection(th) == th.pc \in {"r_loop", "v_loop", "c_clear"}

\* C20: at most one thread is inside the tile-cache section of render_tiles,
\* render_single_tile, invalidate_tiles or clear_tile_cache, and it holds the
\* write guard; the cache changes only in a step of that thread; no render
\* looks up a coord while an invalidate is in its section; a render that
\* finds a coord cached dirty regenerates it; and a dirty flag is cleared
\* only by the render lookup of that coord.
C20_TileCacheMutualExclusion ==
    [][/\ \A t1, t2 \in Threads :
             (t1 # t2 /\ InGridSection(threads'[t1])) => ~InGridSection(threads'[t2])
       /\ \A t \in Threads : InGridSection(threads'[t]) => tile_grid_lock'.writer = t
       /\ <<tiles, access_counter>>' # <<tiles, access_counter>> =>
             /\ tile_grid_lock.writer \in Threads
             /\ InGridSection(threads[tile_grid_lock.writer])
             /\ \A t \in Threads \ {tile_grid_lock.writer} : threads'[t] = threads[t]
       /\ \A t \in Threads :
             (threads[t].pc = "r_loop" /\ threads'[t].i = threads[t].i + 1) =>
                 LET c == threads[t].items[threads[t].i]
                 IN  /\ \A t2 \in Threads \ {t} : threads[t2].pc # "v_loop"
                     /\ (c \in DOMAIN tiles /\ tiles[c].dirty) =>
                           /\ threads'[t].lookups[threads[t].i] = "dirty"
                           /\ ~tiles'[c].dirty
                           /\ threads'[t].results[threads[t].i].commands =
                                 generate_tile(0, c, nodes, spatial_index.val).commands
       /\ \A c \in (DOMAIN tiles) \cap (DOMAIN tiles') :
             (tiles[c].dirty /\ ~tiles'[c].dirty) =>
                 \E t \in Threads :
                     /\ threads[t].pc = "r_loop"
                     /\ threads[t].i <= Len(threads[t].items)
                     /\ threads[t].items[threads[t].i] = c
      ]_vars

\* C20 witness: an invalidate_tiles call has returned coords, and a render
\* that started afterwards has found the first of its coords cached dirty and
\* is about to look up the second
C20_Witness ==
    \E t1, t2 \in Threads :
        /\ threads[t1].pc = "r_loop"
        /\ threads[t1].i = 2
        /\ threads[t1].lookups = <<"dirty">>
        /\ threads[t2].pc = "idle"
        /\ threads[t2].call.name = "invalidate_tiles"
        /\ threads[t2].ret.tag = "Ok"
        /\ threads[t2].ret.val # <<>>

\* C31 (as stated; refuted): once an index is installed, no render_tiles or
\* render_single_tile call installs another build in its place: an installed
\* index is replaced only by an init_spatial_index call of the host
C31_RenderBuildsIndexOnce ==
    [][(spatial_index # None /\ spatial_index' # spatial_index) =>
          \A t \in Threads :
              threads[t].pc = "i_install" => threads[t].call.name = "init_spatial_index"
      ]_vars

----------------------------------------------------------------------------
(* Claims about lock order and progress, checked under FairSpecConc *)

\* thread t holds a guard of the lock
Holds(t, lock) == lock.writer = t \/ t \in lock.readers

\* C40: every call a thread has entered returns (the host makes finitely
\* many calls, so from some point on every thread is outside a call for
\* good); a thread that takes a guard of the spatial-index lock holds no guard
\* of the tile-cache lock at that moment, so a thread holding both took the
\* spatial-index guard first; and a thread waiting for the write guard of the
\* spatial-index lock holds no guard at all, as does a thread outside a call.
C40_DeadlockFreedom ==
    /\ <>[](\A t \in Threads : threads[t].pc = "idle")
    /\ [][\A t \in Threads :
             (Holds(t, spatial_index_lock') /\ ~Holds(t, spatial_index_lock)) =>
                 ~Holds(t, tile_grid_lock)
         ]_vars
    /\ [](\A t \in Threads :
             /\ threads[t].pc = "i_write" =>
                   ~Holds(t, spatial_index_lock) /\ ~Holds(t, tile_grid_lock)
             /\ threads[t].pc = "idle" =>
                   ~Holds(t, spatial_index_lock) /\ ~Holds(t, tile_grid_lock))

\* C40 witness: a render inside its loop holds the read guard of the index
\* and the write guard of the tile cache, while the other thread, its build
\* complete, waits for the write guard of the index
C40_Witness ==
    \E t1, t2 \in Threads :
        /\ threads[t1].pc = "r_loop"
        /\ Holds(t1, spatial_index_lock)
        /\ Holds(t1, tile_grid_lock)
        /\ threads[t2].pc = "i_write"
        /\ ~can_write(spatial_index_lock)

----------------------------------------------------------------------------
(* Claims about the .fig container and the decoders, checked under SpecKiwi *)

\* data begins with the bytes of prefix
StartsWith(data, prefix) ==
    Len(data) >= Len(prefix) /\ SubSeq(data, 1, Len(prefix)) = prefix

\* C21 (as stated; refuted): load_figma_file returns InvalidHeader for every
\* input that does not begin with "fig-kiwi", inputs shorter than 8 bytes
\* and "not-kiwi" with nothing after it included
C21_NonMagicIsInvalidHeader ==
    (op.name = "load_figma_file" /\ ret # Pending /\ ~StartsWith(op.data, FIG_KIWI))
        => ret = InvalidHeader

\* C22 (as stated; refuted): load_figma_file of an input that begins with
\* "fig-kiwie" fails with InvalidHeader, whatever follows the header
C22_EncryptedIsInvalidHeader ==
    (op.name = "load_figma_file" /\ ret # Pending /\ StartsWith(op.data, FIG_KIWIE))
        => ret = InvalidHeader

\* the chunks that follow the 8-byte header hold fewer than two chunks, or
\* a length or body that is cut short
FewerThanTwoChunks(data) ==
    \E chunks \in {parse_chunks(SubSeq(data, 9, Len(data)), <<>>)} :
        chunks.tag # "Ok" \/ Len(chunks.val) < 2

\* C23 (as stated; refuted): load_figma_file of a container with the header
\* "fig-kiwi" and fewer than two chunks returns an error value
C23_FewerThanTwoChunksIsError ==
    (/\ op.name = "load_figma_file"
     /\ ret # Pending
     /\ StartsWith(op.data, FIG_KIWI)
     /\ ~StartsWith(op.data, FIG_KIWIE)
     /\ FewerThanTwoChunks(op.data))
        => ret.tag = "Err"

\* the bit pattern of the f32 1.0, 0x3F800000
F32_ONE == 23..29

\* C24 (as stated; refuted): a node decoded from node changes without a
\* visible field is visible, one decoded from node changes without an
\* opacity field has opacity 1.0, and with both it yields a draw command
\* when its type draws
C24_AbsentVisibleAndOpacityDefault ==
    (op.name = "decode_node_changes" /\ ret # Pending /\ ret.tag = "Ok") =>
        \A id \in DOMAIN ret.val.nodes :
            /\ op.data \in MessagesOf(NodeChangesWith({<<>>}, Opacities))
                  => /\ ret.val.nodes[id].visible
                     /\ ret.val.nodes[id].node_type = "RECTANGLE"
                           => CommandType(ret.val.nodes[id]) = "rect"
            /\ op.data \in MessagesOf(NodeChangesWith(Visibles, {<<>>}))
                  => ret.val.nodes[id].opacity = F32_ONE

\* C25 (as stated; refuted): after decoding node changes, page_ids holds no
\* id twice and every id in it is a key of the node map whose node is a
\* CANVAS, also when two node changes carry the same guid
C25_PageIdsAreDistinctCanvases ==
    (op.name = "decode_node_changes" /\ ret # Pending /\ ret.tag = "Ok") =>
        /\ Distinct(ret.val.page_ids)
        /\ \A i \in 1..Len(ret.val.page_ids) :
              /\ ret.val.page_ids[i] \in DOMAIN ret.val.nodes
              /\ ret.val.nodes[ret.val.page_ids[i]].node_type = "CANVAS"

\* C28 (as stated; refuted): decode_fill_paint, decode_effects and
\* decode_vector return a collection, never an error, on every blob, and
\* to_draw_command returns on every node whatever its blobs
C28_BlobDecodersAreTotal ==
    /\ (op.name \in {"decode_fill_paint", "decode_effects", "decode_vector"} /\ ret # Pending)
          => ret.tag = "Ok"
    /\ (op.name = "to_draw_command" /\ ret # Pending) => ret.tag = "Ok"

----------------------------------------------------------------------------
(* Claims about the typed reads of the Kiwi reader, checked under SpecReader *)

ReadKinds == {"bool", "varint", "float", "string", "bytes", "guid"}

\* C26 (as stated; refuted): after every typed read the position is at most
\* the length of the data, no read panics, and a string read where no 0x00
\* follows is a DecodeError
C26_ReadsStayInsideData ==
    op.name \in ReadKinds =>
        /\ decoder.pos <= Len(decoder.data)
        /\ ret # Panic
        /\ (/\ op.name = "string"
            /\ \A i \in (op.pos + 1)..Len(decoder.data) : decoder.data[i] # 0)
              => ret = EndOfData

\* C27 (as stated; refuted): read_varint consumes at most 10 bytes, performs
\* no shift of 64 bits or more, and rejects with DecodeError an input whose
\* next 10 bytes all have the continuation bit set
C27_VarintAtMostTenBytes ==
    op.name = "varint" =>
        /\ decoder.pos - op.pos <= 10
        /\ ret # Panic
        /\ (/\ Len(decoder.data) >= op.pos + 10
            /\ \A i \in (op.pos + 1)..(op.pos + 10) : decoder.data[i] >= 128)
              => ret.tag = "Err"

----------------------------------------------------------------------------
(* Claims about tile generation, checked under SpecGen *)

\* the threshold of a LOD 0..3
LodThreshold(lod) == <<1, 2, 4, 8>>[lod + 1]

\* the node of id yields a command in a tile of LOD lod
Emits(all_nodes, id, lod) ==
    /\ id \in DOMAIN all_nodes
    /\ ~(/\ all_nodes[id].width < LodThreshold(lod)
         /\ all_nodes[id].height < LodThreshold(lod))
    /\ all_nodes[id].visible
    /\ all_nodes[id].node_type \in {"RECTANGLE", "FRAME", "COMPONENT", "INSTANCE", "ELLIPSE",
                                    "VECTOR", "STAR", "REGULAR_POLYGON", "LINE", "TEXT"}

\* C32: a tile generated for a coord of LOD l in 0..3 has as node_ids the ids
\* the index returns for the closed rectangle of the tile's bounds, and as
\* commands those of the ids, in their order, whose node exists, is not below
\* the threshold {1,2,4,8}[l] in both width and height, and is of a type and
\* visibility that yield a command; it has no more commands than node_ids.
C32_TileGeneration ==
    [][(op'.name = "render_single_tile" /\ ret'.tag = "Ok"
            /\ op'.lookups[1] # "clean" /\ op'.coord.zoom_level \in 0..3) =>
          \E tile \in {tiles'[op'.coord]} :
          \E emitting \in {SelectSeq(tile.node_ids,
                                     LAMBDA id : Emits(nodes, id, op'.coord.zoom_level))} :
              /\ tile.node_ids =
                    query_rect(spatial_index'.val, tile.bounds.x, tile.bounds.y,
                               tile.bounds.x + tile.bounds.width,
                               tile.bounds.y + tile.bounds.height)
              /\ tile.bounds = TileBounds(op'.coord)
              /\ Len(tile.commands) = Len(emitting)
              /\ \A k \in 1..Len(emitting) :
                    /\ tile.commands[k].x = nodes[emitting[k]].x
                    /\ tile.commands[k].width = nodes[emitting[k]].width
                    /\ tile.commands[k].height = nodes[emitting[k]].height
              /\ ret'.val.commands = tile.commands
              /\ ret'.val.node_count = Len(tile.node_ids)
              /\ Len(ret'.val.commands) <= ret'.val.node_count
      ]_vars

\* C32 witness: a tile of LOD 2 that holds the hidden node and the group
\* among its ids, has a command for the 3 x 9 rectangle, which is below the
\* threshold 4 in width only, and none for the 3 x 3 rectangle
C32_Witness ==
    /\ op.name = "render_single_tile"
    /\ op.coord = TileCoord(0, 0, 2)
    /\ ret.tag = "Ok"
    /\ {"h", "g", "k33", "k39"} \subseteq SeqToSet(tiles[op.coord].node_ids)
    /\ \E k \in 1..Len(ret.val.commands) : ret.val.commands[k].x = 50
    /\ \A k \in 1..Len(ret.val.commands) : ret.val.commands[k].x # 40
    /\ Len(ret.val.commands) < ret.val.node_count

----------------------------------------------------------------------------
(* Claims about the recursive walks, checked under FairSpecWalk *)

\* C39 (as stated; refuted): every call of init_spatial_index, and of
\* render_node with include_children = true, returns, whatever the node map
\* and the id, a node map whose children lists hold a self-reference or a
\* cycle included
C39_WalksTerminate ==
    (op.name = "init_spatial_index" \/ op.include_children) =>
        <>(ret.tag \in {"Ok", "Err"})

----------------------------------------------------------------------------
(* Claims about visibility enumeration and LOD selection, checked under     *)
(* SpecVis                                                                   *)

\* the LOD the specification gives for a scale in thousandths
StepLod(s) == IF s >= 500 THEN 0 ELSE IF s >= 250 THEN 1 ELSE IF s >= 125 THEN 2 ELSE 3

\* C8: for every viewport of non-negative width and height, the envelope of
\* every coord get_visible_tiles returns intersects the viewport rectangle
\* (v.x, v.y, v.x + v.w, v.y + v.h), edges included.
C8_VisibleTilesIntersectViewport ==
    (/\ op.name = "get_visible_tiles"
     /\ op.viewport.width >= 0 /\ op.viewport.height >= 0
     /\ ret.tag = "Ok") =>
        \A i \in 1..Len(ret.val) :
            LET v == op.viewport
                b == TileBounds(ret.val[i])
            IN  /\ b.x <= v.x + v.width /\ b.x + b.width >= v.x
                /\ b.y <= v.y + v.height /\ b.y + b.height >= v.y

\* C9: whenever get_visible_tiles returns, every coord carries the LOD of the
\* scale, no coord is returned twice, and every tile of that LOD whose region
\* [x*S, (x+1)*S) x [y*S, (y+1)*S) holds a point of the viewport rectangle is
\* returned; the viewport (0, 0, 2048, 1536, 1.0) yields at least (0,0,0),
\* (1,0,0), (0,1,0) and (1,1,0).
C9_VisibleTilesCoverViewport ==
    (op.name = "get_visible_tiles" /\ ret.tag = "Ok") =>
        LET v == op.viewport
            lod == StepLod(v.scale)
            S == TileSide(lod)
        IN  /\ \A i \in 1..Len(ret.val) : ret.val[i].zoom_level = lod
            /\ Distinct(ret.val)
            /\ \A tx \in -4..4, ty \in -4..4 :
                  (/\ v.width >= 0 /\ v.height >= 0
                   /\ tx * S <= v.x + v.width /\ (tx + 1) * S > v.x
                   /\ ty * S <= v.y + v.height /\ (ty + 1) * S > v.y) =>
                      TileCoord(tx, ty, lod) \in SeqToSet(ret.val)
            /\ v = Viewport(0, 0, 2048, 1536, 1000) =>
                  {TileCoord(0, 0, 0), TileCoord(1, 0, 0),
                   TileCoord(0, 1, 0), TileCoord(1, 1, 0)} \subseteq SeqToSet(ret.val)

\* C9 witness: the viewport (0, 0, 2048, 1536, 1.0) and its tiles
C9_Witness ==
    /\ op.name = "get_visible_tiles"
    /\ op.viewport = Viewport(0, 0, 2048, 1536, 1000)
    /\ ret.tag = "Ok"
    /\ TileCoord(1, 1, 0) \in SeqToSet(ret.val)

\* C10: zoom_to_lod is the step function 0 if s >= 0.5, 1 if s >= 0.25, 2 if
\* s >= 0.125, 3 otherwise; the result is in 0..3 and does not increase with s.
C10_LodStepFunction ==
    (op.name = "zoom_to_lod" /\ ret.tag = "Ok") =>
        /\ ret.val = StepLod(op.scale)
        /\ ret.val \in 0..3
        /\ \A s \in Scales : s >= op.scale => zoom_to_lod(s) <= ret.val

\* C10 witness: the scale 0.125 selects LOD 2
C10_Witness ==
    /\ op.name = "zoom_to_lod"
    /\ op.scale = 125
    /\ ret.tag = "Ok"
    /\ ret.val = 2

====
